---------------------------- MODULE Spec2Model ----------------------------
(***************************************************************************)
(* Model of the naming / sequencing core of the work camera application:   *)
(*   - NamingCodec      formatFilename / parseFilename   (StorageUtils.ts) *)
(*   - SequenceResolver findHighestSequence, getUniqueFilename             *)
(*   - CaptureArchiver  archiveExistingFile, saveFile                      *)
(*   - the CameraView sequencing state machine           (CameraView.tsx)  *)
(*   - SettingsResolver App.setup, getInitialValue    (SettingsStorage.ts) *)
(*   - SessionStore     FolderSelector, renameFolder, deleteFolder         *)
(*                                                                         *)
(* Strings are sequences of one-character strings, so that formatting and  *)
(* parsing are computed character by character as the JavaScript does.     *)
(***************************************************************************)
EXTENDS Integers, Sequences, FiniteSets, TLC

VARIABLES
    codec,          \* a run of a naming function: formatFilename and parseFilename
                    \* (index, name, parsed index) or renameFolder (names, disk)
    scan,           \* SequenceResolver run: directory listing, arguments, result
    app,            \* App state: currentFolder, showFolderSelector
    fs,             \* the directory of each folder: a set of entries
    archive,        \* the archive/ subfolder of each folder: a set of entries
    clock,          \* number of files created so far; a new file's mtime
    cam,            \* CameraView state (the useState hooks)
    effects,        \* the folder-change effects still running
    photos,         \* takePhoto calls in flight, each with its closure
    video,          \* the recording in progress or being saved, or null
    indexSave,      \* the handleIndexSave call awaiting fileExists, or null
    ghost,          \* history: what the claims need to remember
    storage,        \* what is persisted: settings, last-used values, last folder
    boot,           \* App state that setup resolves: isLoading, initial values
    disk,           \* the folders that exist under (and including) BASE_DIR
    selector        \* FolderSelector state while it is shown, or null

appvars == <<storage, boot, disk, selector>>

viewvars == <<fs, archive, clock, cam, effects, photos, video, indexSave, ghost>>
camvars == <<app, fs, archive, clock, cam, effects, photos, video, indexSave, ghost, appvars>>

vars == <<codec, scan, app, fs, archive, clock, cam, effects, photos, video, indexSave, ghost,
          storage, boot, disk, selector>>

-----------------------------------------------------------------------------
(* JavaScript values *)

\* a missing optional number (subSequence?: number)
undefined == -1

\* Number("x") for a token that is not a number
NaN == -2

-----------------------------------------------------------------------------
(* JavaScript string primitives *)

DigitChars == <<"0", "1", "2", "3", "4", "5", "6", "7", "8", "9">>

IsDigit(c) == \E i \in 1..10 : DigitChars[i] = c

DigitValue(c) == (CHOOSE i \in 1..10 : DigitChars[i] = c) - 1

\* /^\d+$/.test(s)
IsNumeric(s) == Len(s) > 0 /\ \A i \in 1..Len(s) : IsDigit(s[i])

RECURSIVE DigitsToNat(_)
DigitsToNat(s) ==
    IF s = <<>> THEN 0
    ELSE 10 * DigitsToNat(SubSeq(s, 1, Len(s) - 1)) + DigitValue(s[Len(s)])

\* Number(s), on the tokens file names are made of: the empty string is 0,
\* a digit string is its value, anything else is NaN.
Number(s) ==
    IF s = <<>> THEN 0
    ELSE IF IsNumeric(s) THEN DigitsToNat(s)
    ELSE NaN

RECURSIVE NatToString(_)
NatToString(n) ==
    IF n < 10 THEN <<DigitChars[n + 1]>>
    ELSE NatToString(n \div 10) \o <<DigitChars[(n % 10) + 1]>>

\* `${n}` for a number that may be NaN
NumberToString(n) == IF n = NaN THEN <<"N", "a", "N">> ELSE NatToString(n)

RECURSIVE padStart(_, _, _)
padStart(s, n, c) == IF Len(s) >= n THEN s ELSE padStart(<<c>> \o s, n, c)

\* s.indexOf(pat): the first position pat occurs at, 0 if none
indexOf(s, pat) ==
    LET hits == {i \in 1..(Len(s) - Len(pat) + 1) : SubSeq(s, i, i + Len(pat) - 1) = pat}
    IN  IF hits = {} THEN 0 ELSE CHOOSE i \in hits : \A j \in hits : i <= j

\* s.lastIndexOf(pat)
lastIndexOf(s, pat) ==
    LET hits == {i \in 1..(Len(s) - Len(pat) + 1) : SubSeq(s, i, i + Len(pat) - 1) = pat}
    IN  IF hits = {} THEN 0 ELSE CHOOSE i \in hits : \A j \in hits : i >= j

includes(s, pat) == indexOf(s, pat) # 0

endsWith(s, pat) ==
    Len(s) >= Len(pat) /\ SubSeq(s, Len(s) - Len(pat) + 1, Len(s)) = pat

\* s.replace(pat, rep) with a string pattern: the FIRST occurrence only
replace(s, pat, rep) ==
    LET i == indexOf(s, pat)
    IN  IF i = 0 THEN s
        ELSE SubSeq(s, 1, i - 1) \o rep \o SubSeq(s, i + Len(pat), Len(s))

\* the upper-case letters of the media extensions and their lower case
LowerOf ==
    [c \in {"J", "P", "G", "E", "N", "M", "O", "V"} |->
        CASE c = "J" -> "j" [] c = "P" -> "p" [] c = "G" -> "g" [] c = "E" -> "e"
          [] c = "N" -> "n" [] c = "M" -> "m" [] c = "O" -> "o" [] c = "V" -> "v"]

toLowerChar(c) == IF c \in DOMAIN LowerOf THEN LowerOf[c] ELSE c

\* s.toLowerCase(), on the letters of the media extensions
toLowerCase(s) == [i \in 1..Len(s) |-> toLowerChar(s[i])]

JPG == <<".", "j", "p", "g">>
MP4 == <<".", "m", "p", "4">>
JPEG == <<".", "j", "p", "e", "g">>
PNG == <<".", "p", "n", "g">>
MOV == <<".", "m", "o", "v">>

-----------------------------------------------------------------------------
(* NamingCodec *)

\* the characters of /[\\/:*?"<>|]/
IllegalChars == {"\\", "/", ":", "*", "?", "\"", "<", ">", "|"}

\* textLabel.replace(/[\\/:*?"<>|]/g, '_')
sanitize(s) == [i \in 1..Len(s) |-> IF s[i] \in IllegalChars THEN "_" ELSE s[i]]

formatFilename(sequence, subSequence, textLabel) ==
    IF textLabel # <<>>
    THEN IF subSequence # undefined
         THEN sanitize(textLabel) \o <<"-">> \o NumberToString(subSequence) \o JPG
         ELSE sanitize(textLabel) \o JPG
    ELSE LET seqStr == padStart(NatToString(sequence), 3, "0")
         IN  IF subSequence # undefined
             THEN seqStr \o <<"-">> \o NumberToString(subSequence) \o JPG
             ELSE seqStr \o JPG

\* parseFilename with the sub-sequence of a numbered name dropped
parseFilenameNoSub(filename) ==
    LET name == replace(replace(filename, JPG, <<>>), MP4, <<>>)
    IN  IF includes(name, <<"-">>)
        THEN LET cut    == lastIndexOf(name, <<"-">>)
                 sub    == Number(SubSeq(name, cut + 1, Len(name)))
                 prefix == SubSeq(name, 1, cut - 1)
             IN  IF IsNumeric(prefix)
                 THEN [sequence |-> Number(prefix)]
                 ELSE [textLabel |-> prefix, subSequence |-> sub]
        ELSE IF IsNumeric(name)
             THEN [sequence |-> Number(name)]
             ELSE [textLabel |-> name]

\* parseFilename that also hands out the numeric prefix as the label
parseFilenameLabelled(filename) ==
    LET name == replace(replace(filename, JPG, <<>>), MP4, <<>>)
    IN  IF includes(name, <<"-">>)
        THEN LET cut    == lastIndexOf(name, <<"-">>)
                 sub    == Number(SubSeq(name, cut + 1, Len(name)))
                 prefix == SubSeq(name, 1, cut - 1)
             IN  IF IsNumeric(prefix)
                 THEN [sequence |-> Number(prefix), textLabel |-> prefix, subSequence |-> sub]
                 ELSE [textLabel |-> prefix, subSequence |-> sub]
        ELSE IF IsNumeric(name)
             THEN [sequence |-> Number(name)]
             ELSE [textLabel |-> name]

parseFilename(filename) ==
    LET name == replace(replace(filename, JPG, <<>>), MP4, <<>>)
    IN  IF includes(name, <<"-">>)
        THEN \* parts = name.split('-'); sub = Number(parts.pop()); prefix = parts.join('-')
             LET cut    == lastIndexOf(name, <<"-">>)
                 sub    == Number(SubSeq(name, cut + 1, Len(name)))
                 prefix == SubSeq(name, 1, cut - 1)
             IN  IF IsNumeric(prefix)
                 THEN [sequence |-> Number(prefix), subSequence |-> sub]
                 ELSE [textLabel |-> prefix, subSequence |-> sub]
        ELSE IF IsNumeric(name)
             THEN [sequence |-> Number(name)]
             ELSE [textLabel |-> name]

-----------------------------------------------------------------------------
(* SequenceResolver: directory listings *)

\* A directory is a set of entries [name, isFile, mtime]; mtime orders them.

\* the entry of a set with the latest mtime
Newest(entries) == CHOOSE e \in entries : \A o \in entries : o.mtime <= e.mtime

\* entries.sort((a, b) => b.mtime - a.mtime)
RECURSIVE sortByMtimeDesc(_)
sortByMtimeDesc(entries) ==
    IF entries = {} THEN <<>>
    ELSE <<Newest(entries)>> \o sortByMtimeDesc(entries \ {Newest(entries)})

isMedia(entryName) ==
    LET name == toLowerCase(entryName)
    IN  \/ endsWith(name, JPG)
        \/ endsWith(name, JPEG)
        \/ endsWith(name, PNG)
        \/ endsWith(name, MP4)
        \/ endsWith(name, MOV)

\* listPhotos: the media files of a directory, newest first; an unreadable
\* directory (readDir throws) lists as empty
listPhotos(dir, readable) ==
    IF ~readable THEN <<>>
    ELSE sortByMtimeDesc({f \in dir : f.isFile /\ isMedia(f.name)})

\* the forEach of findHighestSequence, from position i on
RECURSIVE maxSeqFrom(_, _, _)
maxSeqFrom(files, i, maxSeq) ==
    IF i > Len(files) THEN maxSeq
    ELSE LET parsed == parseFilename(files[i].name)
         IN  IF "sequence" \in DOMAIN parsed /\ parsed.sequence > maxSeq
             THEN maxSeqFrom(files, i + 1, parsed.sequence)
             ELSE maxSeqFrom(files, i + 1, maxSeq)

findHighestSequence(dir, readable) == maxSeqFrom(listPhotos(dir, readable), 1, 0)

\* an existence probe that never finds the file
existsNever(dir, filename) == FALSE

\* RNFS.exists(`${folderPath}/${filename}`)
exists(dir, filename) == \E e \in dir : e.name = filename

\* the while loop of getUniqueFilename
RECURSIVE uniqueLoop(_, _, _, _, _)
uniqueLoop(dir, base, ext, filename, counter) ==
    IF exists(dir, filename)
    THEN uniqueLoop(dir, base, ext,
                    base \o <<"_">> \o NatToString(counter + 1) \o ext, counter + 1)
    ELSE filename

getUniqueFilename(dir, sequence, subSequence, textLabel) ==
    LET filename == formatFilename(sequence, subSequence, textLabel)
        ext      == IF endsWith(filename, MP4) THEN MP4 ELSE JPG
        base     == replace(filename, ext, <<>>)
    IN  uniqueLoop(dir, base, ext, filename, 1)

\* directory entries (RNFS.ReadDirItem): name, kind, modification time
File(name, mtime) == [name |-> name, isFile |-> TRUE, mtime |-> mtime]
Directory(name, mtime) == [name |-> name, isFile |-> FALSE, mtime |-> mtime]

-----------------------------------------------------------------------------
(* Storage: saveFile, archiveExistingFile, root file names *)

\* the while loop of saveFile
RECURSIVE saveLoop(_, _, _, _, _)
saveLoop(dir, base, ext, finalFilename, counter) ==
    IF exists(dir, finalFilename)
    THEN saveLoop(dir, base, ext,
                  base \o <<"_", "v">> \o NatToString(counter + 1) \o ext, counter + 1)
    ELSE finalFilename

\* saveFile up to its moveFile: the destination name it settles on
saveFile(dir, filename) ==
    LET ext  == IF endsWith(filename, MP4) THEN MP4 ELSE JPG
        base == SubSeq(filename, 1, Len(filename) - Len(ext))
    IN  saveLoop(dir, base, ext, filename, 1)

\* RNFS.moveFile(tempPath, destPath): the new file takes the place of an
\* entry of the same name
moveInto(dir, name, mtime) == {e \in dir : e.name # name} \cup {File(name, mtime)}

ArchiveName == <<"a", "r", "c", "h", "i", "v", "e">>

\* filename.replace('.jpg', `_${timestamp}.jpg`)
archiveFileName(filename, timestamp) ==
    replace(filename, JPG, <<"_">> \o NatToString(timestamp) \o JPG)

\* archiveExistingFile on a directory and its archive/ subfolder; io is how
\* the file system answers: "ok", "mkdir" (mkdir throws) or "move" (moveFile
\* throws). Gives the directory, the archive and the returned boolean.
archiveExistingFile(dir, arch, filename, timestamp, io) ==
    IF ~exists(dir, filename) \/ io = "mkdir"
    THEN [dir |-> dir, archive |-> arch, result |-> FALSE]
    ELSE IF io = "move"
    THEN [dir |-> dir \cup {Directory(ArchiveName, 0)}, archive |-> arch, result |-> FALSE]
    ELSE LET e     == CHOOSE x \in dir : x.name = filename
             moved == [e EXCEPT !.name = archiveFileName(filename, timestamp)]
         IN  [dir     |-> (dir \ {e}) \cup {Directory(ArchiveName, 0)},
              archive |-> {a \in arch : a.name # moved.name} \cup {moved},
              result  |-> TRUE]

\* getTimestamp() within the second the model runs in
Timestamp == <<"2", "0", "2", "4", "0", "1", "0", "1", "_", "0", "9", "0", "0", "0", "0">>

\* Math.random().toString(36).substring(2, 6).toUpperCase()
ShortIds == {<<"A", "B", "C", "D">>, <<"W", "X", "Y", "Z">>}

formatTimestampFilename(extension, timestamp, shortId) ==
    (IF extension = JPG THEN <<"I", "M", "G">> ELSE <<"V", "I", "D">>)
        \o <<"_">> \o timestamp \o <<"_">> \o shortId \o extension

\* the mp4 collision loop of toggleRecording
RECURSIVE videoLoop(_, _, _, _)
videoLoop(dir, base, filename, counter) ==
    IF exists(dir, filename)
    THEN videoLoop(dir, base, base \o <<"_">> \o NatToString(counter + 1) \o MP4, counter + 1)
    ELSE filename

\* the file name toggleRecording settles on before recording starts
videoFilename(dir, sequence, subSequence, textLabel) ==
    LET unique == getUniqueFilename(dir, sequence, subSequence, textLabel)
    IN  IF endsWith(unique, MP4) THEN unique
        ELSE LET filename == replace(unique, JPG, MP4)
             IN  videoLoop(dir, replace(filename, MP4, <<>>), filename, 1)

-----------------------------------------------------------------------------
(* Text input helpers *)

RECURSIVE trimStart(_)
trimStart(s) == IF s # <<>> /\ s[1] = " " THEN trimStart(Tail(s)) ELSE s

RECURSIVE trimEnd(_)
trimEnd(s) ==
    IF s # <<>> /\ s[Len(s)] = " " THEN trimEnd(SubSeq(s, 1, Len(s) - 1)) ELSE s

trim(s) == trimEnd(trimStart(s))

\* the leading run of digits of s
RECURSIVE leadingDigits(_)
leadingDigits(s) ==
    IF s # <<>> /\ IsDigit(s[1]) THEN <<s[1]>> \o leadingDigits(Tail(s)) ELSE <<>>

\* parseInt(s, 10)
parseInt(s) ==
    LET digits == leadingDigits(trimStart(s))
    IN  IF digits = <<>> THEN NaN ELSE DigitsToNat(digits)

\* text.replace(/[^0-9]/g, '')
RECURSIVE digitsOnly(_)
digitsOnly(s) ==
    IF s = <<>> THEN <<>>
    ELSE (IF IsDigit(s[1]) THEN <<s[1]>> ELSE <<>>) \o digitsOnly(Tail(s))

-----------------------------------------------------------------------------
(* App and CameraView state *)

null == [null |-> TRUE]

BASE_DIR == "WorkPhotos"
SessionFolder == "Site_20240101_090000"
OtherFolder == "Beam_20240102_100000"
RenamedFolder == "Site2_20240103_110000"
Folders == {BASE_DIR, SessionFolder, OtherFolder, RenamedFolder}

\* an optional value that is there (one that is not is null)
Some(v) == [value |-> v]

\* the useState initial values of CameraView
InitialCam ==
    [ mode            |-> "photo",
      labelingMode    |-> "single",
      textLabel       |-> <<>>,
      isEnteringLabel |-> FALSE,
      newFolderName   |-> <<>>,
      sequence        |-> 1,
      subSequence     |-> 1,
      lastPhoto       |-> null,
      retakeTarget    |-> null,
      usedLabels      |-> {},
      isEditingIndex  |-> FALSE,
      editSequence    |-> <<>>,
      editSubSequence |-> <<>>,
      indexWarning    |-> null,
      isRecording     |-> FALSE,
      flash           |-> "off",
      cameraPosition  |-> "back",
      gallery         |-> null ]

\* the effects a mount of CameraView on a folder starts: syncSequence
\* (returns at once for the root) and the scan for last photo and used labels
MountEffects(folder) == [sync |-> folder # BASE_DIR, load |-> TRUE]

NoEffects == [sync |-> FALSE, load |-> FALSE]

\* what is not state of the component: captures stored so far, the capture
\* that failed last, the writeFile calls of saveLastFolder that have not
\* completed, the alert on
\* the screen, the paths that were selected at the last bulk delete, and
\* whether the folder selector was last left by a Back that reset to the root
InitialGhost == [saved |-> 0, failed |-> null, writes |-> <<>>, alert |-> null, bulk |-> {}, reset |-> FALSE]

-----------------------------------------------------------------------------
(* Persisted settings and what App.setup resolves from them *)

SettingModes == {"default", "fixed", "lastUsed"}

\* the keys of the last-used store
LastUsedKeys == {"shutterPositions", "labelingMode", "captureMode", "flashMode", "cameraPosition"}

getDefaultSettings ==
    [ ignoreOrientationLock |-> FALSE,
      folderMode            |-> "lastUsed",
      fixedFolder           |-> null,
      shutterPositionMode   |-> "default",
      fixedShutterPositions |-> null,
      labelingModeMode      |-> "default",
      fixedLabelingMode     |-> null,
      captureMode           |-> "default",
      fixedCaptureMode      |-> null,
      flashModeMode         |-> "default",
      fixedFlashMode        |-> null,
      cameraModeMode        |-> "default",
      fixedCameraPosition   |-> null ]

\* nothing was ever persisted
EmptyStorage ==
    [ settings |-> null, lastUsed |-> [k \in LastUsedKeys |-> null], lastFolder |-> null ]

\* a stored item that cannot be read (getItem / readFile throws) and one
\* whose text JSON.parse throws on
Unreadable == [unreadable |-> TRUE]
Malformed == [malformed |-> TRUE]

\* the read and parse of a stored item throws
throws(item) == item \in {Unreadable, Malformed}

\* an exception that leaves an async function
Threw == [threw |-> TRUE]

\* loadSettings without its try / catch
loadSettingsUncaught(stored) ==
    IF throws(stored.settings) THEN Threw
    ELSE IF stored.settings = null THEN getDefaultSettings
    ELSE stored.settings

\* loadSettings: the stored document over the defaults; the defaults when
\* there is none or the read or the parse throws
loadSettings(stored) ==
    IF throws(stored.settings) THEN getDefaultSettings
    ELSE IF stored.settings = null THEN getDefaultSettings
    ELSE stored.settings

\* getLastUsedState(key): null when nothing is stored or the read throws
getLastUsedState(stored, key) ==
    IF throws(stored.lastUsed[key]) THEN null ELSE stored.lastUsed[key]

\* getLastFolder: null when there is no state file or the read throws
getLastFolder(stored) ==
    IF throws(stored.lastFolder) THEN null ELSE stored.lastFolder

\* fixedValue ?? defaultValue
orDefault(optional, defaultValue) == IF optional = null THEN defaultValue ELSE optional.value

\* getInitialValue(settings, settingKey, fixedKey, lastUsedKey, defaultValue)
getInitialValue(stored, settings, settingKey, fixedKey, lastUsedKey, defaultValue) ==
    IF settings[settingKey] = "fixed" THEN orDefault(settings[fixedKey], defaultValue)
    ELSE IF settings[settingKey] = "lastUsed"
    THEN orDefault(getLastUsedState(stored, lastUsedKey), defaultValue)
    ELSE defaultValue

\* portrait and landscape { x: 0, y: 0 }
Centered == [portrait |-> [x |-> 0, y |-> 0], landscape |-> [x |-> 0, y |-> 0]]

\* the useState initial values of App; modal is the state of SettingsModal
\* while it is shown (its settings, null until they are loaded), else null
InitialBoot ==
    [ isLoading             |-> TRUE,
      appSettings           |-> null,
      shutterPositions      |-> Centered,
      initialLabelingMode   |-> "single",
      initialCaptureMode    |-> "photo",
      initialFlashMode      |-> "off",
      initialCameraPosition |-> "back",
      modal                 |-> null ]

\* setupFolder without the RNFS.exists check of the fixed folder
setupFolderUnchecked(stored, settings, existing) ==
    IF settings.folderMode = "fixed" THEN settings.fixedFolder
    ELSE IF settings.folderMode = "lastUsed" THEN getLastFolder(stored)
    ELSE null

\* setup: the folder the switch on folderMode settles on (null: none)
setupFolder(stored, settings, existing) ==
    IF settings.folderMode = "fixed"
    THEN IF settings.fixedFolder # null /\ settings.fixedFolder.value \in existing
         THEN settings.fixedFolder ELSE null
    ELSE IF settings.folderMode = "lastUsed" THEN getLastFolder(stored)
    ELSE null

\* setupValue reading the last-used value whatever the mode is
setupValueAnyMode(stored, settings, modeKey, fixedKey, lastUsedKey, initial) ==
    IF settings[modeKey] = "fixed" /\ settings[fixedKey] # null
    THEN settings[fixedKey].value
    ELSE IF getLastUsedState(stored, lastUsedKey) # null
    THEN getLastUsedState(stored, lastUsedKey).value
    ELSE initial

\* setup: one of the five "Load ... based on settings" blocks; initial is the
\* useState value that stays when nothing is set
setupValue(stored, settings, modeKey, fixedKey, lastUsedKey, initial) ==
    IF settings[modeKey] = "fixed" /\ settings[fixedKey] # null
    THEN settings[fixedKey].value
    ELSE IF settings[modeKey] = "lastUsed" /\ getLastUsedState(stored, lastUsedKey) # null
    THEN getLastUsedState(stored, lastUsedKey).value
    ELSE initial

\* App state once setup has run on what is persisted
setup(stored) ==
    LET settings == loadSettings(stored)
    IN  [ isLoading             |-> FALSE,
          appSettings           |-> settings,
          shutterPositions      |->
              setupValue(stored, settings, "shutterPositionMode", "fixedShutterPositions",
                         "shutterPositions", InitialBoot.shutterPositions),
          initialLabelingMode   |->
              setupValue(stored, settings, "labelingModeMode", "fixedLabelingMode",
                         "labelingMode", InitialBoot.initialLabelingMode),
          initialCaptureMode    |->
              setupValue(stored, settings, "captureMode", "fixedCaptureMode",
                         "captureMode", InitialBoot.initialCaptureMode),
          initialFlashMode      |->
              setupValue(stored, settings, "flashModeMode", "fixedFlashMode",
                         "flashMode", InitialBoot.initialFlashMode),
          initialCameraPosition |->
              setupValue(stored, settings, "cameraModeMode", "fixedCameraPosition",
                         "cameraPosition", InitialBoot.initialCameraPosition),
          modal                 |-> null ]

CameraIdle ==
    /\ storage = EmptyStorage
    /\ boot = setup(EmptyStorage)
    /\ disk = {BASE_DIR}
    /\ selector = null
    /\ app = [currentFolder |-> BASE_DIR, showFolderSelector |-> FALSE]
    /\ fs = [f \in Folders |-> {}]
    /\ archive = [f \in Folders |-> {}]
    /\ clock = 0
    /\ cam = InitialCam
    /\ effects = NoEffects
    /\ photos = {}
    /\ video = null
    /\ indexSave = null
    /\ ghost = InitialGhost

\* a modal (label prompt, index editor) covers the on-screen buttons
noModal == ~cam.isEnteringLabel /\ ~cam.isEditingIndex /\ cam.gallery = null

\* CameraView is rendered (setup is over, the folder selector is not shown)
cameraShown == ~boot.isLoading /\ ~app.showFolderSelector

\* captures asked for and not yet stored
inFlight == Cardinality(photos) + (IF video = null THEN 0 ELSE 1)

-----------------------------------------------------------------------------
(* Bounds and inputs of the capture-screen model *)

MaxCaptures == 2
MaxSeq == 3

LabelTexts == {<<"B">>, <<" ", "A">>}
EditTexts == {<<>>, <<"1">>, <<"2">>}
SubTexts == {<<>>, <<"1">>}

\* what a session folder may hold when the application starts
OnePhoto == {File(<<"0", "0", "1">> \o JPG, 1)}

SomePhotos ==
    { File(<<"0", "0", "1">> \o JPG, 1),
      File(<<"0", "0", "2">> \o JPG, 2),
      File(<<"A", "-", "1">> \o JPG, 3) }

-----------------------------------------------------------------------------
(* Folder-change effects (CameraView useEffect on currentFolder.path) *)

\* the labels of the parsed media names that are non-empty
labelsOf(files) ==
    {parseFilename(files[i].name).textLabel :
        i \in {j \in 1..Len(files) :
                  /\ "textLabel" \in DOMAIN parseFilename(files[j].name)
                  /\ parseFilename(files[j].name).textLabel # <<>>}}

LoadFolderDone ==
    /\ cameraShown
    /\ effects.load
    /\ LET files == listPhotos(fs[app.currentFolder], TRUE)
       IN  cam' = IF Len(files) > 0
                  THEN [cam EXCEPT !.lastPhoto = files[1].name,
                                   !.usedLabels = labelsOf(files)]
                  ELSE [cam EXCEPT !.usedLabels = {}]
    /\ effects' = [effects EXCEPT !.load = FALSE]
    /\ UNCHANGED <<codec, scan, appvars, app, fs, archive, clock, photos, video, indexSave, ghost>>

SyncSequenceDone ==
    /\ cameraShown
    /\ effects.sync
    /\ LET highest == findHighestSequence(fs[app.currentFolder], TRUE)
       IN  cam' = IF highest > 0
                  THEN [cam EXCEPT !.sequence = highest + 1, !.subSequence = 1]
                  ELSE [cam EXCEPT !.sequence = 1, !.subSequence = 1]
    /\ effects' = [effects EXCEPT !.sync = FALSE]
    /\ UNCHANGED <<codec, scan, appvars, app, fs, archive, clock, photos, video, indexSave, ghost>>

-----------------------------------------------------------------------------
(* takePhoto *)

\* retakeTarget?.sequence ?? sequence
targetSeq(t) ==
    IF t.retakeTarget # null /\ "sequence" \in DOMAIN t.retakeTarget
    THEN t.retakeTarget.sequence
    ELSE t.sequence

targetSub(t) ==
    IF t.retakeTarget # null
    THEN IF "subSequence" \in DOMAIN t.retakeTarget
         THEN t.retakeTarget.subSequence ELSE undefined
    ELSE IF t.labelingMode # "single" THEN t.subSequence ELSE undefined

targetText(t) ==
    IF t.retakeTarget # null
    THEN IF "textLabel" \in DOMAIN t.retakeTarget
         THEN t.retakeTarget.textLabel ELSE <<>>
    ELSE IF t.labelingMode = "text-group" THEN t.textLabel ELSE <<>>

\* the mtime of the entry called name, 0 if there is none
entryId(dir, name) ==
    IF exists(dir, name) THEN (CHOOSE e \in dir : e.name = name).mtime ELSE 0

\* the shutter button in photo mode, or a volume key: the callback closes
\* over the state of the render it was created in, then awaits the camera
TakePhotoPress ==
    /\ cameraShown
    /\ cam.mode = "photo"
    /\ ghost.saved + inFlight < MaxCaptures
    /\ photos' = photos \cup
          {[ id           |-> ghost.saved + inFlight + 1,
             mounted      |-> TRUE,
             retakeTarget |-> cam.retakeTarget,
             sequence     |-> cam.sequence,
             subSequence  |-> cam.subSequence,
             labelingMode |-> cam.labelingMode,
             textLabel    |-> cam.textLabel,
             usedLabels   |-> cam.usedLabels,
             folder       |-> app.currentFolder ]}
    /\ UNCHANGED <<codec, scan, appvars, app, fs, archive, clock, cam, effects, video, indexSave, ghost>>

\* the photo is taken and stored: the file name is chosen; on a retake
\* archiveExistingFile runs (its result is not looked at); saveFile looks for
\* a free destination and moves the photo there; the state updates follow.
\* Nothing else writes to the folder while a capture is being stored.
TakePhotoStore(t) ==
    /\ t \in photos
    /\ \E shortId \in ShortIds, io \in {"ok", "mkdir", "move"} :
          LET dir      == fs[t.folder]
              filename == IF t.folder = BASE_DIR
                          THEN formatTimestampFilename(JPG, Timestamp, shortId)
                          ELSE getUniqueFilename(dir, targetSeq(t), targetSub(t), targetText(t))
              arch     == IF t.retakeTarget # null
                          THEN archiveExistingFile(dir, archive[t.folder], filename, clock, io)
                          ELSE [dir |-> dir, archive |-> archive[t.folder], result |-> FALSE]
              dest     == saveFile(arch.dir, filename)
          IN  /\ fs' = [fs EXCEPT ![t.folder] = moveInto(arch.dir, dest, clock + 1)]
              /\ archive' = [archive EXCEPT ![t.folder] = arch.archive]
              /\ cam' =
                    IF ~t.mounted THEN cam
                    ELSE IF t.retakeTarget # null
                    THEN [cam EXCEPT !.lastPhoto = dest, !.retakeTarget = null]
                    ELSE IF t.labelingMode # "single"
                    THEN [cam EXCEPT !.lastPhoto = dest,
                                     !.subSequence = @ + 1,
                                     !.usedLabels =
                                         IF t.labelingMode = "text-group"
                                            /\ t.textLabel \notin t.usedLabels
                                         THEN @ \cup {t.textLabel} ELSE @]
                    ELSE [cam EXCEPT !.lastPhoto = dest, !.sequence = @ + 1]
    /\ clock' = clock + 1
    /\ photos' = photos \ {t}
    /\ ghost' = [ghost EXCEPT !.saved = @ + 1]
    /\ UNCHANGED <<codec, scan, appvars, app, effects, video, indexSave>>

\* takePhoto await by await, for captures that overlap. A task of photos
\* gains the field dest once saveFile has settled on a destination.
Probed(t) == "dest" \in DOMAIN t

\* t with the destination saveFile settled on
WithDest(t, dest) ==
    [ id           |-> t.id,
      mounted      |-> t.mounted,
      retakeTarget |-> t.retakeTarget,
      sequence     |-> t.sequence,
      subSequence  |-> t.subSequence,
      labelingMode |-> t.labelingMode,
      textLabel    |-> t.textLabel,
      usedLabels   |-> t.usedLabels,
      folder       |-> t.folder,
      dest         |-> dest ]

\* camera.current.takePhoto throws: the catch logs, nothing else happens
TakePhotoThrows(t) ==
    /\ t \in photos
    /\ ~Probed(t)
    /\ photos' = photos \ {t}
    /\ ghost' = [ghost EXCEPT !.failed = t]
    /\ UNCHANGED <<codec, scan, appvars, app, fs, archive, clock, cam, effects, video, indexSave>>

\* from the photo taken to the last RNFS.exists of saveFile: the file name
\* is chosen, on a retake archiveExistingFile runs, and saveFile finds the
\* destination free
SaveFileProbe(t) ==
    /\ t \in photos
    /\ ~Probed(t)
    /\ \E shortId \in ShortIds, io \in {"ok", "mkdir", "move"} :
          LET dir      == fs[t.folder]
              filename == IF t.folder = BASE_DIR
                          THEN formatTimestampFilename(JPG, Timestamp, shortId)
                          ELSE getUniqueFilename(dir, targetSeq(t), targetSub(t), targetText(t))
              arch     == IF t.retakeTarget # null
                          THEN archiveExistingFile(dir, archive[t.folder], filename, clock, io)
                          ELSE [dir |-> dir, archive |-> archive[t.folder], result |-> FALSE]
          IN  /\ fs' = [fs EXCEPT ![t.folder] = arch.dir]
              /\ archive' = [archive EXCEPT ![t.folder] = arch.archive]
              /\ photos' = (photos \ {t}) \cup {WithDest(t, saveFile(arch.dir, filename))}
    /\ UNCHANGED <<codec, scan, appvars, app, clock, cam, effects, video, indexSave, ghost>>

\* takePhoto advancing the counter before saveFile is awaited
SaveFileMoveCounted(t) ==
    /\ t \in photos
    /\ Probed(t)
    /\ \E moved \in BOOLEAN :
          /\ cam' = IF ~t.mounted THEN cam
                    ELSE [cam EXCEPT !.sequence = @ + 1,
                                     !.lastPhoto = IF moved THEN t.dest ELSE @]
          /\ IF moved
             THEN /\ fs' = [fs EXCEPT ![t.folder] = moveInto(@, t.dest, clock + 1)]
                  /\ clock' = clock + 1
                  /\ ghost' = [ghost EXCEPT !.saved = @ + 1]
             ELSE /\ ghost' = [ghost EXCEPT !.failed = t]
                  /\ UNCHANGED <<fs, clock>>
    /\ photos' = photos \ {t}
    /\ UNCHANGED <<codec, scan, appvars, app, archive, effects, video, indexSave>>

\* RNFS.moveFile(tempPath, destPath) and what follows it. moved: the file is
\* at the destination (in the place of an entry that took the name since the
\* probe); otherwise moveFile throws and the catch logs
SaveFileMove(t) ==
    /\ t \in photos
    /\ Probed(t)
    /\ \E moved \in BOOLEAN :
          IF moved
          THEN /\ fs' = [fs EXCEPT ![t.folder] = moveInto(@, t.dest, clock + 1)]
               /\ cam' =
                     IF ~t.mounted THEN cam
                     ELSE IF t.retakeTarget # null
                     THEN [cam EXCEPT !.lastPhoto = t.dest, !.retakeTarget = null]
                     ELSE IF t.labelingMode # "single"
                     THEN [cam EXCEPT !.lastPhoto = t.dest,
                                      !.subSequence = @ + 1,
                                      !.usedLabels =
                                          IF t.labelingMode = "text-group"
                                             /\ t.textLabel \notin t.usedLabels
                                          THEN @ \cup {t.textLabel} ELSE @]
                     ELSE [cam EXCEPT !.lastPhoto = t.dest, !.sequence = @ + 1]
               /\ clock' = clock + 1
               /\ ghost' = [ghost EXCEPT !.saved = @ + 1]
          ELSE /\ ghost' = [ghost EXCEPT !.failed = t]
               /\ UNCHANGED <<fs, cam, clock>>
    /\ photos' = photos \ {t}
    /\ UNCHANGED <<codec, scan, appvars, app, archive, effects, video, indexSave>>

-----------------------------------------------------------------------------
(* toggleRecording *)

\* the shutter button in video mode, or a volume key, while not recording
StartRecording ==
    /\ cameraShown
    /\ cam.mode = "video"
    /\ ~cam.isRecording
    /\ video = null
    /\ ghost.saved + inFlight < MaxCaptures
    /\ \E shortId \in ShortIds :
          LET captureSeq  == cam.sequence
              captureSub  == IF cam.labelingMode # "single" THEN cam.subSequence ELSE undefined
              captureText == IF cam.labelingMode = "text-group" THEN cam.textLabel ELSE <<>>
              filename    == IF app.currentFolder = BASE_DIR
                             THEN formatTimestampFilename(MP4, Timestamp, shortId)
                             ELSE videoFilename(fs[app.currentFolder],
                                                captureSeq, captureSub, captureText)
          IN  video' = [ pc            |-> "recording",
                         mounted       |-> TRUE,
                         folder        |-> app.currentFolder,
                         filename      |-> filename,
                         labelingMode  |-> cam.labelingMode,
                         sequence      |-> captureSeq,
                         subSequence   |-> captureSub,
                         textLabel     |-> captureText,
                         retakePending |-> cam.retakeTarget # null ]
    /\ cam' = [cam EXCEPT !.isRecording = TRUE]
    /\ UNCHANGED <<codec, scan, appvars, app, fs, archive, clock, effects, photos, indexSave, ghost>>

\* the same button while recording
StopRecording ==
    /\ cameraShown
    /\ cam.mode = "video"
    /\ cam.isRecording
    /\ video # null
    /\ video.pc = "recording"
    /\ video' = [video EXCEPT !.pc = "finished"]
    /\ cam' = [cam EXCEPT !.isRecording = FALSE]
    /\ UNCHANGED <<codec, scan, appvars, app, fs, archive, clock, effects, photos, indexSave, ghost>>

\* onRecordingError
RecordingError ==
    /\ video # null
    /\ video.pc = "recording"
    /\ video' = null
    /\ cam' = IF video.mounted THEN [cam EXCEPT !.isRecording = FALSE] ELSE cam
    /\ UNCHANGED <<codec, scan, appvars, app, fs, archive, clock, effects, photos, indexSave, ghost>>

\* onRecordingFinished with the group counter advancing in every labeling mode
VideoSavedSubOnly ==
    /\ video # null
    /\ video.pc = "finished"
    /\ LET dest == saveFile(fs[video.folder], video.filename)
       IN  /\ fs' = [fs EXCEPT ![video.folder] = moveInto(@, dest, clock + 1)]
           /\ cam' =
                 IF ~video.mounted THEN cam
                 ELSE [cam EXCEPT !.lastPhoto = dest, !.subSequence = @ + 1]
    /\ clock' = clock + 1
    /\ video' = null
    /\ ghost' = [ghost EXCEPT !.saved = @ + 1]
    /\ UNCHANGED <<codec, scan, appvars, app, archive, effects, photos, indexSave>>

\* onRecordingFinished: saveFile, then the counter of the labeling mode the
\* recording started in advances
VideoSaved ==
    /\ video # null
    /\ video.pc = "finished"
    /\ LET dest == saveFile(fs[video.folder], video.filename)
       IN  /\ fs' = [fs EXCEPT ![video.folder] = moveInto(@, dest, clock + 1)]
           /\ cam' =
                 IF ~video.mounted THEN cam
                 ELSE IF video.labelingMode # "single"
                 THEN [cam EXCEPT !.lastPhoto = dest, !.subSequence = @ + 1]
                 ELSE [cam EXCEPT !.lastPhoto = dest, !.sequence = @ + 1]
    /\ clock' = clock + 1
    /\ video' = null
    /\ ghost' = [ghost EXCEPT !.saved = @ + 1]
    /\ UNCHANGED <<codec, scan, appvars, app, archive, effects, photos, indexSave>>

SetMode(m) ==
    /\ cameraShown
    /\ noModal
    /\ cam.mode # m
    /\ cam' = [cam EXCEPT !.mode = m]
    /\ UNCHANGED <<codec, scan, appvars, app, fs, archive, clock, effects, photos, video, indexSave, ghost>>

\* the flash button of the settings grid
ToggleFlash ==
    /\ cameraShown
    /\ noModal
    /\ cam' = [cam EXCEPT !.flash = IF @ = "off" THEN "on" ELSE IF @ = "on" THEN "auto" ELSE "off"]
    /\ UNCHANGED <<codec, scan, appvars, app, fs, archive, clock, effects, photos, video, indexSave, ghost>>

\* the camera switch button of the settings grid
SwitchCamera ==
    /\ cameraShown
    /\ noModal
    /\ cam' = [cam EXCEPT !.cameraPosition = IF @ = "back" THEN "front" ELSE "back"]
    /\ UNCHANGED <<codec, scan, appvars, app, fs, archive, clock, effects, photos, video, indexSave, ghost>>

-----------------------------------------------------------------------------
(* Labeling mode, groups and the label prompt *)

\* the grouping button with the counters restarted on every switch
CycleLabelingModeRestart ==
    /\ cameraShown
    /\ noModal
    /\ cam' = IF cam.labelingMode = "single"
              THEN [cam EXCEPT !.labelingMode = "numbered-group", !.subSequence = 1]
              ELSE IF cam.labelingMode = "numbered-group"
              THEN [cam EXCEPT !.labelingMode = "text-group", !.isEnteringLabel = TRUE, !.subSequence = 1]
              ELSE [cam EXCEPT !.labelingMode = "single", !.subSequence = 1]
    /\ UNCHANGED <<codec, scan, appvars, app, fs, archive, clock, effects, photos, video, indexSave, ghost>>

\* the grouping button of the settings grid
CycleLabelingMode ==
    /\ cameraShown
    /\ noModal
    /\ cam' = IF cam.labelingMode = "single"
              THEN [cam EXCEPT !.labelingMode = "numbered-group"]
              ELSE IF cam.labelingMode = "numbered-group"
              THEN [cam EXCEPT !.labelingMode = "text-group", !.isEnteringLabel = TRUE]
              ELSE [cam EXCEPT !.labelingMode = "single"]
    /\ UNCHANGED <<codec, scan, appvars, app, fs, archive, clock, effects, photos, video, indexSave, ghost>>

\* nextSequence without the reset of the group counter
NextSequenceKeepSub ==
    /\ cameraShown
    /\ noModal
    /\ cam.labelingMode # "single"
    /\ cam.labelingMode = "numbered-group" => cam.sequence < MaxSeq
    /\ cam' = IF cam.labelingMode = "text-group"
              THEN [cam EXCEPT !.newFolderName = cam.textLabel, !.isEnteringLabel = TRUE]
              ELSE [cam EXCEPT !.sequence = @ + 1]
    /\ UNCHANGED <<codec, scan, appvars, app, fs, archive, clock, effects, photos, video, indexSave, ghost>>

\* nextSequence: the next-group button, shown in the grouped modes
NextSequence ==
    /\ cameraShown
    /\ noModal
    /\ cam.labelingMode # "single"
    /\ cam.labelingMode = "numbered-group" => cam.sequence < MaxSeq
    /\ cam' = IF cam.labelingMode = "text-group"
              THEN [cam EXCEPT !.newFolderName = cam.textLabel, !.isEnteringLabel = TRUE]
              ELSE [cam EXCEPT !.sequence = @ + 1, !.subSequence = 1]
    /\ UNCHANGED <<codec, scan, appvars, app, fs, archive, clock, effects, photos, video, indexSave, ghost>>

\* onChangeText of the label prompt
TypeLabel(text) ==
    /\ cameraShown
    /\ cam.isEnteringLabel
    /\ cam.newFolderName # text
    /\ cam' = [cam EXCEPT !.newFolderName = text]
    /\ ghost' = [ghost EXCEPT !.alert = null]
    /\ UNCHANGED <<codec, scan, appvars, app, fs, archive, clock, effects, photos, video, indexSave>>

\* handleLabelSave without its duplicate check
HandleLabelSaveAny ==
    /\ cameraShown
    /\ cam.isEnteringLabel
    /\ LET trimmedLabel == trim(cam.newFolderName)
       IN  cam' = IF trimmedLabel # <<>>
                  THEN [cam EXCEPT !.textLabel = trimmedLabel,
                                   !.subSequence = 1,
                                   !.usedLabels = @ \cup {trimmedLabel},
                                   !.isEnteringLabel = FALSE]
                  ELSE [cam EXCEPT !.isEnteringLabel = FALSE]
    /\ ghost' = [ghost EXCEPT !.alert = null]
    /\ UNCHANGED <<codec, scan, appvars, app, fs, archive, clock, effects, photos, video, indexSave>>

\* handleLabelSave; a label already used raises an alert and changes nothing
HandleLabelSave ==
    /\ cameraShown
    /\ cam.isEnteringLabel
    /\ LET trimmedLabel == trim(cam.newFolderName)
       IN  IF trimmedLabel # <<>> /\ trimmedLabel \in cam.usedLabels
           THEN /\ cam' = cam
                /\ ghost' = [ghost EXCEPT !.alert = [title |-> "Duplicate Label"]]
           ELSE /\ cam' = IF trimmedLabel # <<>>
                          THEN [cam EXCEPT !.textLabel = trimmedLabel,
                                           !.subSequence = 1,
                                           !.usedLabels = @ \cup {trimmedLabel},
                                           !.isEnteringLabel = FALSE]
                          ELSE [cam EXCEPT !.isEnteringLabel = FALSE]
                /\ ghost' = [ghost EXCEPT !.alert = null]
    /\ UNCHANGED <<codec, scan, appvars, app, fs, archive, clock, effects, photos, video, indexSave>>

\* Cancel, or the back button, in the label prompt
CancelLabel ==
    /\ cameraShown
    /\ cam.isEnteringLabel
    /\ cam' = [cam EXCEPT !.isEnteringLabel = FALSE]
    /\ ghost' = [ghost EXCEPT !.alert = null]
    /\ UNCHANGED <<codec, scan, appvars, app, fs, archive, clock, effects, photos, video, indexSave>>

-----------------------------------------------------------------------------
(* Retake *)

\* retakeLast: the retake button, shown when there is a last photo and no target
RetakeLast ==
    /\ cameraShown
    /\ noModal
    /\ cam.lastPhoto # null
    /\ cam.retakeTarget = null
    /\ cam' = [cam EXCEPT !.retakeTarget = parseFilename(cam.lastPhoto)]
    /\ UNCHANGED <<codec, scan, appvars, app, fs, archive, clock, effects, photos, video, indexSave, ghost>>

\* the gallery: Retake on a media file of the folder, then the gallery closes
\* and the last photo is read again
GalleryRetake(e) ==
    /\ cameraShown
    /\ noModal
    /\ e \in fs[app.currentFolder]
    /\ e.isFile /\ isMedia(e.name)
    /\ LET files == listPhotos(fs[app.currentFolder], TRUE)
       IN  cam' = [cam EXCEPT !.retakeTarget = parseFilename(e.name),
                              !.lastPhoto = files[1].name]
    /\ UNCHANGED <<codec, scan, appvars, app, fs, archive, clock, effects, photos, video, indexSave, ghost>>

\* the "Retaking ..." label
CancelRetake ==
    /\ cameraShown
    /\ noModal
    /\ cam.retakeTarget # null
    /\ cam' = [cam EXCEPT !.retakeTarget = null]
    /\ UNCHANGED <<codec, scan, appvars, app, fs, archive, clock, effects, photos, video, indexSave, ghost>>

-----------------------------------------------------------------------------
(* The index editor *)

\* setIsEditingIndex(false): the editor's fields are not read again before
\* openIndexEditor rewrites them, so the closed editor is kept with none
Closed(c) ==
    [c EXCEPT !.isEditingIndex = FALSE, !.editSequence = <<>>, !.editSubSequence = <<>>]

OpenIndexEditor ==
    /\ cameraShown
    /\ noModal
    /\ app.currentFolder # BASE_DIR
    /\ cam.retakeTarget = null
    /\ cam' = [cam EXCEPT
                 !.editSequence = IF cam.labelingMode = "text-group"
                                  THEN cam.textLabel ELSE NumberToString(cam.sequence),
                 !.editSubSequence = IF cam.labelingMode # "single"
                                     THEN NumberToString(cam.subSequence) ELSE <<>>,
                 !.indexWarning = null,
                 !.isEditingIndex = TRUE]
    /\ UNCHANGED <<codec, scan, appvars, app, fs, archive, clock, effects, photos, video, indexSave, ghost>>

\* onChangeText of the sequence field
TypeEditSequence(text) ==
    /\ cameraShown
    /\ cam.isEditingIndex
    /\ LET value == IF cam.labelingMode = "text-group" THEN text ELSE digitsOnly(text)
       IN  /\ value # cam.editSequence
           /\ cam' = [cam EXCEPT !.editSequence = value, !.indexWarning = null]
    /\ UNCHANGED <<codec, scan, appvars, app, fs, archive, clock, effects, photos, video, indexSave, ghost>>

\* onChangeText of the sub-sequence field, shown in the grouped modes
TypeEditSubSequence(text) ==
    /\ cameraShown
    /\ cam.isEditingIndex
    /\ cam.labelingMode # "single"
    /\ digitsOnly(text) # cam.editSubSequence
    /\ cam' = [cam EXCEPT !.editSubSequence = digitsOnly(text), !.indexWarning = null]
    /\ UNCHANGED <<codec, scan, appvars, app, fs, archive, clock, effects, photos, video, indexSave, ghost>>

\* the validation of handleIndexSave with the sub-sequence field left unchecked
indexInputErrorNoSub(c) ==
    IF c.labelingMode = "text-group"
    THEN (IF trim(c.editSequence) = <<>> THEN "Invalid Label" ELSE "")
    ELSE (IF parseInt(c.editSequence) = NaN \/ parseInt(c.editSequence) < 1
          THEN "Invalid Index" ELSE "")

\* the validation of handleIndexSave: the title of the alert it raises, or
\* "" when the fields pass
indexInputError(c) ==
    IF c.labelingMode = "text-group" /\ trim(c.editSequence) = <<>>
    THEN "Invalid Label"
    ELSE IF c.labelingMode # "text-group"
            /\ (parseInt(c.editSequence) = NaN \/ parseInt(c.editSequence) < 1)
    THEN "Invalid Index"
    ELSE IF c.labelingMode # "single" /\ trim(c.editSubSequence) # <<>>
            /\ (parseInt(c.editSubSequence) = NaN \/ parseInt(c.editSubSequence) < 1)
    THEN "Invalid Sub-Index"
    ELSE ""

\* handleIndexSave up to its await: validation (a failure raises an alert and
\* returns), then fileExists is asked about the formatted name
HandleIndexSubmit ==
    /\ cameraShown
    /\ cam.isEditingIndex
    /\ LET textMode     == cam.labelingMode = "text-group"
           newTextLabel == IF textMode THEN trim(cam.editSequence) ELSE cam.textLabel
           newSeq       == IF textMode THEN cam.sequence ELSE parseInt(cam.editSequence)
           hasSub       == cam.labelingMode # "single" /\ trim(cam.editSubSequence) # <<>>
           newSubSeq    == IF hasSub THEN parseInt(cam.editSubSequence) ELSE undefined
       IN  IF indexInputError(cam) # ""
           THEN /\ ghost' = [ghost EXCEPT !.alert = [title |-> indexInputError(cam)]]
                /\ indexSave' = indexSave
           ELSE /\ indexSave = null
                /\ indexSave' =
                      [ folder       |-> app.currentFolder,
                        filename     |-> formatFilename(newSeq, newSubSeq,
                                             IF textMode THEN newTextLabel ELSE <<>>),
                        labelingMode |-> cam.labelingMode,
                        newSeq       |-> newSeq,
                        newSubSeq    |-> newSubSeq,
                        newTextLabel |-> newTextLabel,
                        indexWarning |-> cam.indexWarning ]
                /\ ghost' = [ghost EXCEPT !.alert = null]
    /\ UNCHANGED <<codec, scan, appvars, app, fs, archive, clock, cam, effects, photos, video>>

\* `File "${filename.replace('.jpg', '')}" already exists. Press "Set" again
\* to confirm overwrite.`: the message is kept as the name it quotes
warningFor(filename) == replace(filename, JPG, <<>>)

\* fileExists answered yes and the submitting render showed no warning
IndexSaveWarns ==
    /\ indexSave # null
    /\ exists(fs[indexSave.folder], indexSave.filename)
    /\ indexSave.indexWarning = null
    /\ cam' = [cam EXCEPT !.indexWarning = warningFor(indexSave.filename)]
    /\ indexSave' = null
    /\ UNCHANGED <<codec, scan, appvars, app, fs, archive, clock, effects, photos, video, ghost>>

\* otherwise the index is set and the editor closes
IndexSaveCommits ==
    /\ indexSave # null
    /\ ~(exists(fs[indexSave.folder], indexSave.filename) /\ indexSave.indexWarning = null)
    /\ cam' =
          LET grouped == IF indexSave.labelingMode # "single"
                         THEN [cam EXCEPT !.subSequence =
                                  IF indexSave.newSubSeq = undefined
                                  THEN 1 ELSE indexSave.newSubSeq]
                         ELSE cam
          IN  IF indexSave.labelingMode = "text-group"
              THEN [Closed(grouped) EXCEPT !.textLabel = indexSave.newTextLabel,
                                           !.usedLabels = @ \cup {indexSave.newTextLabel},
                                           !.indexWarning = null]
              ELSE [Closed(grouped) EXCEPT !.sequence = indexSave.newSeq,
                                           !.indexWarning = null]
    /\ indexSave' = null
    /\ UNCHANGED <<codec, scan, appvars, app, fs, archive, clock, effects, photos, video, ghost>>

\* the Cancel button of the editor
CancelIndexEdit ==
    /\ cameraShown
    /\ cam.isEditingIndex
    /\ cam' = [Closed(cam) EXCEPT !.indexWarning = null]
    /\ UNCHANGED <<codec, scan, appvars, app, fs, archive, clock, effects, photos, video, indexSave, ghost>>

\* the back button while the editor is open
RequestCloseIndexEditor ==
    /\ cameraShown
    /\ cam.isEditingIndex
    /\ cam' = Closed(cam)
    /\ UNCHANGED <<codec, scan, appvars, app, fs, archive, clock, effects, photos, video, indexSave, ghost>>

-----------------------------------------------------------------------------
(* FolderSelector *)

\* the useState initial values of FolderSelector; loading: loadFolders has
\* been called and has not set the list yet
InitialSelector ==
    [ folders |-> {}, selectionMode |-> FALSE, selectedFolders |-> {}, loading |-> TRUE ]

\* { name: 'WorkPhotos (Root)', path: BASE_DIR }
RootEntry == [name |-> "WorkPhotos (Root)", path |-> BASE_DIR]

\* `${BASE_DIR}/${name}`: a folder under BASE_DIR is known by its name,
\* BASE_DIR itself by BASE_DIR
pathIn(name) == name

\* listFolders: the directories under BASE_DIR
listFolders(existing) ==
    {[name |-> f, path |-> pathIn(f)] : f \in existing \ {BASE_DIR}}

\* loadFolders sets the list: the root entry and the folders found
LoadFoldersDone ==
    /\ selector # null
    /\ selector.loading
    /\ selector' = [selector EXCEPT !.folders = {RootEntry} \cup listFolders(disk),
                                    !.loading = FALSE]
    /\ UNCHANGED <<codec, scan, app, fs, archive, clock, cam, effects, photos, video,
                   indexSave, ghost, storage, boot, disk>>

\* RNFS.unlink of the folder called name, which exists
unlinked(existing, name) == existing \ {pathIn(name)}

\* deleteFolder(name); false when unlink throws (nothing is at the path)
canDelete(existing, name) == pathIn(name) \in existing

\* the per-item Delete button, shown outside selection mode on every entry
\* but the root's, and the Delete of its alert; an unlink that throws leaves
\* everything as it is
HandleDelete(folder) ==
    /\ selector # null
    /\ folder \in selector.folders
    /\ ~selector.selectionMode
    /\ folder.path # BASE_DIR
    /\ canDelete(disk, folder.name)
    /\ disk' = unlinked(disk, folder.name)
    /\ fs' = [fs EXCEPT ![pathIn(folder.name)] = {}]
    /\ archive' = [archive EXCEPT ![pathIn(folder.name)] = {}]
    /\ selector' = [selector EXCEPT !.loading = TRUE]
    /\ UNCHANGED <<codec, scan, app, clock, cam, effects, photos, video,
                   indexSave, ghost, storage, boot>>

\* handleLongPress without the guard on the root's path
HandleLongPressAny(folder) ==
    /\ selector # null
    /\ folder \in selector.folders
    /\ ~selector.selectionMode
    /\ selector' = [selector EXCEPT !.selectionMode = TRUE,
                                    !.selectedFolders = {folder.path}]
    /\ UNCHANGED <<codec, scan, app, fs, archive, clock, cam, effects, photos, video,
                   indexSave, ghost, storage, boot, disk>>

\* handleLongPress: selection mode is entered with the entry selected
HandleLongPress(folder) ==
    /\ selector # null
    /\ folder \in selector.folders
    /\ folder.path # BASE_DIR
    /\ ~selector.selectionMode
    /\ selector' = [selector EXCEPT !.selectionMode = TRUE,
                                    !.selectedFolders = {folder.path}]
    /\ UNCHANGED <<codec, scan, app, fs, archive, clock, cam, effects, photos, video,
                   indexSave, ghost, storage, boot, disk>>

\* handlePress in selection mode: the entry is toggled
ToggleSelected(folder) ==
    /\ selector # null
    /\ folder \in selector.folders
    /\ selector.selectionMode
    /\ folder.path # BASE_DIR
    /\ selector' = [selector EXCEPT !.selectedFolders =
                        IF folder.path \in @ THEN @ \ {folder.path} ELSE @ \cup {folder.path}]
    /\ UNCHANGED <<codec, scan, app, fs, archive, clock, cam, effects, photos, video,
                   indexSave, ghost, storage, boot, disk>>

cancelSelection ==
    /\ selector # null
    /\ selector.selectionMode
    /\ selector' = [selector EXCEPT !.selectionMode = FALSE, !.selectedFolders = {}]
    /\ UNCHANGED <<codec, scan, app, fs, archive, clock, cam, effects, photos, video,
                   indexSave, ghost, storage, boot, disk>>

selectAll ==
    /\ selector # null
    /\ selector.selectionMode
    /\ selector' = [selector EXCEPT !.selectedFolders = {f.path : f \in selector.folders}]
    /\ UNCHANGED <<codec, scan, app, fs, archive, clock, cam, effects, photos, video,
                   indexSave, ghost, storage, boot, disk>>

\* the names handleBulkDelete passes to deleteFolder: the selected paths but
\* BASE_DIR, looked up in the list
bulkNames(sel) ==
    {f.name : f \in {e \in sel.folders : e.path \in sel.selectedFolders /\ e.path # BASE_DIR}}

\* handleBulkDelete and the Delete of its alert. When every deleteFolder
\* succeeds the selection is reset and the list reloaded; when one throws
\* the loop stops there, with the folders before it deleted
HandleBulkDelete ==
    /\ selector # null
    /\ selector.selectionMode
    /\ selector.selectedFolders # {}
    /\ LET names == bulkNames(selector)
       IN  IF \A n \in names : canDelete(disk, n)
           THEN /\ disk' = disk \ {pathIn(n) : n \in names}
                /\ fs' = [f \in Folders |-> IF f \in {pathIn(n) : n \in names} THEN {} ELSE fs[f]]
                /\ archive' = [f \in Folders |->
                                  IF f \in {pathIn(n) : n \in names} THEN {} ELSE archive[f]]
                /\ selector' = [selector EXCEPT !.selectionMode = FALSE,
                                                !.selectedFolders = {},
                                                !.loading = TRUE]
           ELSE \E done \in SUBSET {n \in names : canDelete(disk, n)} :
                   /\ disk' = disk \ {pathIn(n) : n \in done}
                   /\ fs' = [f \in Folders |->
                                 IF f \in {pathIn(n) : n \in done} THEN {} ELSE fs[f]]
                   /\ archive' = [f \in Folders |->
                                      IF f \in {pathIn(n) : n \in done} THEN {} ELSE archive[f]]
                   /\ selector' = selector
    /\ ghost' = [ghost EXCEPT !.bulk = selector.selectedFolders]
    /\ UNCHANGED <<codec, scan, app, clock, cam, effects, photos, video,
                   indexSave, storage, boot>>

-----------------------------------------------------------------------------
(* Folder selection (App) *)

\* a CameraView that is taken off the screen loses its state; what its
\* callbacks still do to it has no effect
Unmounted(t) == [t EXCEPT !.mounted = FALSE]

\* onOpenFolders: the folder selector replaces CameraView
OpenFolders ==
    /\ cameraShown
    /\ noModal
    /\ app' = [app EXCEPT !.showFolderSelector = TRUE]
    /\ cam' = InitialCam
    /\ effects' = NoEffects
    /\ photos' = {Unmounted(t) : t \in photos}
    /\ video' = IF video = null THEN null ELSE Unmounted(video)
    /\ indexSave' = null
    /\ selector' = InitialSelector
    /\ UNCHANGED <<codec, scan, storage, boot, disk, fs, archive, clock, ghost>>

\* a new CameraView is rendered on the folder; FolderSelector is gone
Mount(folder) ==
    /\ app' = [currentFolder |-> folder, showFolderSelector |-> FALSE]
    /\ cam' = InitialCam
    /\ effects' = MountEffects(folder)
    /\ selector' = null
    /\ UNCHANGED <<codec, scan, boot, disk, fs, archive, clock, photos, video, indexSave>>

\* saveLastFolder(folder)
saveLastFolder(stored, folder) == [stored EXCEPT !.lastFolder = Some(folder)]

handleFolderSelect(folder) ==
    /\ app.showFolderSelector
    /\ Mount(folder)
    /\ storage' = saveLastFolder(storage, folder)
    /\ ghost' = [ghost EXCEPT !.reset = FALSE]

\* handleBack without the RNFS.exists test of the current folder
handleBackKeep ==
    /\ app.showFolderSelector
    /\ Mount(app.currentFolder)
    /\ storage' = storage
    /\ ghost' = [ghost EXCEPT !.reset = FALSE]

\* handleBack; a current folder that was deleted is replaced by the root
handleBack ==
    /\ app.showFolderSelector
    /\ IF app.currentFolder \in disk
       THEN /\ Mount(app.currentFolder)
            /\ storage' = storage
            /\ ghost' = [ghost EXCEPT !.reset = FALSE]
       ELSE /\ Mount(BASE_DIR)
            /\ storage' = saveLastFolder(storage, BASE_DIR)
            /\ ghost' = [ghost EXCEPT !.reset = TRUE]

\* the name typed in the rename prompt; renameFolder makes RenamedFolder of it
RenamedBase == <<"S", "i", "t", "e", "2">>

\* handleFolderRename with the failure of the move left unhandled
handleFolderRenameSilent ==
    \E io \in {"ok", "move"} :
       IF app.currentFolder \in disk /\ io = "ok"
       THEN /\ disk' = (disk \ {app.currentFolder}) \cup {RenamedFolder}
            /\ fs' = [fs EXCEPT ![RenamedFolder] = fs[app.currentFolder],
                                ![app.currentFolder] = {}]
            /\ archive' = [archive EXCEPT ![RenamedFolder] = archive[app.currentFolder],
                                          ![app.currentFolder] = {}]
            /\ app' = [app EXCEPT !.currentFolder = RenamedFolder]
            /\ storage' = saveLastFolder(storage, RenamedFolder)
            /\ effects' = MountEffects(RenamedFolder)
            /\ ghost' = [ghost EXCEPT !.alert = null]
       ELSE /\ ghost' = [ghost EXCEPT !.alert = null]
            /\ UNCHANGED <<disk, fs, archive, app, storage, effects>>

\* handleFolderRename: renameFolder moves the current folder to its new name
\* and the mounted CameraView gets the new folder, so that its effects on
\* currentFolder.path run again; a move that throws (the folder is gone, or
\* the file system refuses: io = "move") raises the alert
handleFolderRename ==
    \E io \in {"ok", "move"} :
       IF app.currentFolder \in disk /\ io = "ok"
       THEN /\ disk' = (disk \ {app.currentFolder}) \cup {RenamedFolder}
            /\ fs' = [fs EXCEPT ![RenamedFolder] = fs[app.currentFolder],
                                ![app.currentFolder] = {}]
            /\ archive' = [archive EXCEPT ![RenamedFolder] = archive[app.currentFolder],
                                          ![app.currentFolder] = {}]
            /\ app' = [app EXCEPT !.currentFolder = RenamedFolder]
            /\ storage' = saveLastFolder(storage, RenamedFolder)
            /\ effects' = MountEffects(RenamedFolder)
            /\ ghost' = [ghost EXCEPT !.alert = null]
       ELSE /\ ghost' = [ghost EXCEPT !.alert = [title |-> "Error"]]
            /\ UNCHANGED <<disk, fs, archive, app, storage, effects>>

\* the rename prompt of a session folder (the pencil button, the name typed,
\* Save): handleRenameSave calls onRenameFolder with the trimmed name
HandleRenameSave ==
    /\ cameraShown
    /\ noModal
    /\ app.currentFolder # BASE_DIR
    /\ RenamedFolder \notin disk
    /\ cam' = [cam EXCEPT !.newFolderName = RenamedBase]
    /\ handleFolderRename
    /\ UNCHANGED <<codec, scan, boot, selector, clock, photos, video, indexSave>>

\* handlePress outside selection mode: onSelect(folder)
HandlePress(folder) ==
    /\ selector # null
    /\ folder \in selector.folders
    /\ ~selector.selectionMode
    /\ handleFolderSelect(folder.path)

-----------------------------------------------------------------------------
(* saveLastFolder, write by write *)

\* The handlers of App call saveLastFolder without awaiting it: the write of
\* the state file completes later. RNFS runs the calls one after the other,
\* in the order they were made.
MaxWrites == 2

\* saveLastFolder(folder) up to its await of RNFS.writeFile
saveLastFolderCalled(g, folder) == [g EXCEPT !.writes = Append(@, folder)]

\* RNFS.writeFile(STATE_FILE, JSON.stringify(folder)) completes
WriteFileDone ==
    /\ ghost.writes # <<>>
    /\ storage' = saveLastFolder(storage, Head(ghost.writes))
    /\ ghost' = [ghost EXCEPT !.writes = Tail(@)]
    /\ UNCHANGED <<codec, scan, boot, disk, selector, app, fs, archive, clock, cam,
                   effects, photos, video, indexSave>>

\* handlePress outside selection mode, handleFolderSelect returning before
\* the write completes
SelectFolder(folder) ==
    /\ selector # null
    /\ folder \in selector.folders
    /\ ~selector.selectionMode
    /\ app.showFolderSelector
    /\ Len(ghost.writes) < MaxWrites
    /\ Mount(folder.path)
    /\ storage' = storage
    /\ ghost' = [saveLastFolderCalled(ghost, folder.path) EXCEPT !.reset = FALSE]

\* handleBack returning before the write completes
BackToCamera ==
    /\ app.showFolderSelector
    /\ Len(ghost.writes) < MaxWrites
    /\ storage' = storage
    /\ IF app.currentFolder \in disk
       THEN /\ Mount(app.currentFolder)
            /\ ghost' = [ghost EXCEPT !.reset = FALSE]
       ELSE /\ Mount(BASE_DIR)
            /\ ghost' = [saveLastFolderCalled(ghost, BASE_DIR) EXCEPT !.reset = TRUE]

\* handleFolderRename with setCurrentFolder left out
RenameCurrentFolderKept ==
    /\ cameraShown
    /\ noModal
    /\ app.currentFolder # BASE_DIR
    /\ RenamedFolder \notin disk
    /\ Len(ghost.writes) < MaxWrites
    /\ cam' = [cam EXCEPT !.newFolderName = RenamedBase]
    /\ \E io \in {"ok", "move"} :
          IF app.currentFolder \in disk /\ io = "ok"
          THEN /\ disk' = (disk \ {app.currentFolder}) \cup {RenamedFolder}
               /\ fs' = [fs EXCEPT ![RenamedFolder] = fs[app.currentFolder],
                                   ![app.currentFolder] = {}]
               /\ archive' = [archive EXCEPT ![RenamedFolder] = archive[app.currentFolder],
                                             ![app.currentFolder] = {}]
               /\ ghost' = [saveLastFolderCalled(ghost, RenamedFolder) EXCEPT !.alert = null]
               /\ UNCHANGED <<app, effects>>
          ELSE /\ ghost' = [ghost EXCEPT !.alert = [title |-> "Error"]]
               /\ UNCHANGED <<disk, fs, archive, app, effects>>
    /\ UNCHANGED <<codec, scan, boot, selector, clock, photos, video, indexSave, storage>>

\* the rename prompt submitted, handleFolderRename returning before the
\* write completes
RenameCurrentFolder ==
    /\ cameraShown
    /\ noModal
    /\ app.currentFolder # BASE_DIR
    /\ RenamedFolder \notin disk
    /\ Len(ghost.writes) < MaxWrites
    /\ cam' = [cam EXCEPT !.newFolderName = RenamedBase]
    /\ \E io \in {"ok", "move"} :
          IF app.currentFolder \in disk /\ io = "ok"
          THEN /\ disk' = (disk \ {app.currentFolder}) \cup {RenamedFolder}
               /\ fs' = [fs EXCEPT ![RenamedFolder] = fs[app.currentFolder],
                                   ![app.currentFolder] = {}]
               /\ archive' = [archive EXCEPT ![RenamedFolder] = archive[app.currentFolder],
                                             ![app.currentFolder] = {}]
               /\ app' = [app EXCEPT !.currentFolder = RenamedFolder]
               /\ effects' = MountEffects(RenamedFolder)
               /\ ghost' = [saveLastFolderCalled(ghost, RenamedFolder) EXCEPT !.alert = null]
          ELSE /\ ghost' = [ghost EXCEPT !.alert = [title |-> "Error"]]
               /\ UNCHANGED <<disk, fs, archive, app, effects>>
    /\ UNCHANGED <<codec, scan, boot, selector, clock, photos, video, indexSave, storage>>

-----------------------------------------------------------------------------
(* MediaGallery *)

\* cam.gallery is the state of MediaGallery while CameraView shows it (null:
\* showGallery is false): its own folder selector and the folder it browses

\* the thumbnail button: setShowGallery(true); the gallery starts on folderPath
OpenGallery ==
    /\ cameraShown
    /\ noModal
    /\ cam' = [cam EXCEPT !.gallery = [showFolderSelector |-> FALSE,
                                       currentBrowsingPath |-> app.currentFolder]]
    /\ UNCHANGED <<codec, scan, appvars, app, fs, archive, clock, effects, photos, video,
                   indexSave, ghost>>

\* the folder button of the gallery: its FolderSelector is mounted
GalleryOpenFolders ==
    /\ cameraShown
    /\ cam.gallery # null
    /\ ~cam.gallery.showFolderSelector
    /\ cam' = [cam EXCEPT !.gallery.showFolderSelector = TRUE]
    /\ selector' = InitialSelector
    /\ UNCHANGED <<codec, scan, app, fs, archive, clock, effects, photos, video,
                   indexSave, ghost, storage, boot, disk>>

\* onSelect of the gallery's selector: only the browsing path changes, the
\* parent's currentFolder is not updated
GallerySelect(folder) ==
    /\ cameraShown
    /\ cam.gallery # null
    /\ cam.gallery.showFolderSelector
    /\ selector # null
    /\ folder \in selector.folders
    /\ ~selector.selectionMode
    /\ cam' = [cam EXCEPT !.gallery = [showFolderSelector |-> FALSE,
                                       currentBrowsingPath |-> folder.path]]
    /\ selector' = null
    /\ UNCHANGED <<codec, scan, app, fs, archive, clock, effects, photos, video,
                   indexSave, ghost, storage, boot, disk>>

\* onBack of the gallery's selector, and the back button while it is shown
GalleryFoldersBack ==
    /\ cameraShown
    /\ cam.gallery # null
    /\ cam.gallery.showFolderSelector
    /\ cam' = [cam EXCEPT !.gallery.showFolderSelector = FALSE]
    /\ selector' = null
    /\ UNCHANGED <<codec, scan, app, fs, archive, clock, effects, photos, video,
                   indexSave, ghost, storage, boot, disk>>

\* onClose: setShowGallery(false), and the thumbnail is refreshed from
\* listPhotos(currentFolder.path), which gives [] when readDir throws
CloseGallery ==
    /\ cameraShown
    /\ cam.gallery # null
    /\ ~cam.gallery.showFolderSelector
    /\ LET files == listPhotos(fs[app.currentFolder], TRUE)
       IN  cam' = [cam EXCEPT !.gallery = null,
                              !.lastPhoto = IF Len(files) > 0 THEN files[1].name ELSE null]
    /\ UNCHANGED <<codec, scan, appvars, app, fs, archive, clock, effects, photos, video,
                   indexSave, ghost>>

-----------------------------------------------------------------------------
(* Startup (App.setup) *)

\* setup from its first await to setIsLoading(false): initStorage makes
\* BASE_DIR, the settings are loaded, the folder and the five initial values
\* are resolved, and CameraView is rendered on the folder
\* An exception out of loadSettings would leave setup at that await: nothing
\* after it runs and the loading view stays
Setup ==
    /\ boot.isLoading
    /\ disk' = disk \cup {BASE_DIR}
    /\ LET settings == loadSettings(storage)
       IN  IF settings = Threw
           THEN UNCHANGED <<app, effects, boot, cam>>
           ELSE LET folder == orDefault(setupFolder(storage, settings, disk'), BASE_DIR)
                IN  /\ app' = [currentFolder |-> folder, showFolderSelector |-> FALSE]
                    /\ effects' = MountEffects(folder)
                    /\ boot' = setup(storage)
                    /\ cam' = InitialCam
    /\ UNCHANGED <<codec, scan, fs, archive, clock, photos, video, indexSave, ghost,
                   storage, selector>>

\* the mode keys of the settings document
ModeKeys == {"folderMode", "shutterPositionMode", "labelingModeMode", "captureMode",
             "flashModeMode", "cameraModeMode"}

\* updateSetting(key, 'lastUsed') followed by handleSave (saveSettings): the
\* stored document gets the mode, nothing else changes
SwitchToLastUsed(modeKey) ==
    /\ ~boot.isLoading
    /\ loadSettings(storage)[modeKey] # "lastUsed"
    /\ storage' = [storage EXCEPT !.settings = [loadSettings(storage) EXCEPT ![modeKey] = "lastUsed"]]
    /\ UNCHANGED <<codec, scan, boot, disk, selector, viewvars, app>>

-----------------------------------------------------------------------------
(* SettingsModal *)

\* the field of the settings document that holds the fixed value of a mode
FixedKeyOf(modeKey) ==
    CASE modeKey = "folderMode"          -> "fixedFolder"
      [] modeKey = "shutterPositionMode" -> "fixedShutterPositions"
      [] modeKey = "labelingModeMode"    -> "fixedLabelingMode"
      [] modeKey = "captureMode"         -> "fixedCaptureMode"
      [] modeKey = "flashModeMode"       -> "fixedFlashMode"
      [] modeKey = "cameraModeMode"      -> "fixedCameraPosition"

\* the currentValues prop of SettingsModal: the runtime values of the six
\* settings, by the mode key of each
currentValues(modeKey) ==
    CASE modeKey = "folderMode"          -> app.currentFolder
      [] modeKey = "shutterPositionMode" -> boot.shutterPositions
      [] modeKey = "labelingModeMode"    -> cam.labelingMode
      [] modeKey = "captureMode"         -> cam.mode
      [] modeKey = "flashModeMode"       -> cam.flash
      [] modeKey = "cameraModeMode"      -> cam.cameraPosition

\* updateSetting that sets the mode and nothing else
updateSettingModeOnly(settings, key, value) == [settings EXCEPT ![key] = value]

\* updateSetting(key, value) on the settings the modal holds: the new
\* settings; a switch to fixed takes the current value as the fixed value
updateSetting(settings, key, value) ==
    IF value = "fixed"
    THEN [settings EXCEPT ![key] = value, ![FixedKeyOf(key)] = Some(currentValues(key))]
    ELSE [settings EXCEPT ![key] = value]

\* the modal becomes visible
OpenSettings ==
    /\ cameraShown
    /\ noModal
    /\ boot.modal = null
    /\ boot' = [boot EXCEPT !.modal = [settings |-> null]]
    /\ UNCHANGED <<codec, scan, storage, disk, selector, viewvars, app>>

\* the effect on visible: loadSettings().then(setSettings)
SettingsLoaded ==
    /\ boot.modal # null
    /\ boot.modal.settings = null
    /\ boot' = [boot EXCEPT !.modal = [settings |-> Some(loadSettings(storage))]]
    /\ UNCHANGED <<codec, scan, storage, disk, selector, viewvars, app>>

\* one of the three mode buttons of a setting
UpdateSetting(key, value) ==
    /\ boot.modal # null
    /\ boot.modal.settings # null
    /\ boot.modal.settings.value[key] # value
    /\ boot' = [boot EXCEPT !.modal =
                   [settings |-> Some(updateSetting(boot.modal.settings.value, key, value))]]
    /\ UNCHANGED <<codec, scan, storage, disk, selector, viewvars, app>>

\* handleSave: saveSettings, onSettingsChange, onClose; with the settings
\* not loaded yet it only closes
HandleSettingsSave ==
    /\ boot.modal # null
    /\ IF boot.modal.settings # null
       THEN /\ storage' = [storage EXCEPT !.settings = boot.modal.settings.value]
            /\ boot' = [boot EXCEPT !.appSettings = boot.modal.settings.value, !.modal = null]
       ELSE /\ storage' = storage
            /\ boot' = [boot EXCEPT !.modal = null]
    /\ UNCHANGED <<codec, scan, disk, selector, viewvars, app>>

\* onClose without handleSave (the close button, the back button)
CloseSettings ==
    /\ boot.modal # null
    /\ boot' = [boot EXCEPT !.modal = null]
    /\ UNCHANGED <<codec, scan, storage, disk, selector, viewvars, app>>

\* the application is closed and launched again: every useState starts over
\* and setup is to run; what was persisted and the disk stay
Launch ==
    /\ ~boot.isLoading
    /\ inFlight = 0
    /\ boot' = InitialBoot
    /\ app' = [currentFolder |-> null, showFolderSelector |-> FALSE]
    /\ cam' = InitialCam
    /\ effects' = NoEffects
    /\ selector' = null
    /\ indexSave' = null
    /\ ghost' = [ghost EXCEPT !.alert = null]
    /\ UNCHANGED <<codec, scan, storage, disk, fs, archive, clock, photos, video>>

\* the settings one may have fixed, and values one may have used last
SettingNames == {"folder", "shutterPosition", "labelingMode", "captureMode", "flashMode", "cameraPosition"}

FixedShutter == [portrait |-> [x |-> 10, y |-> 20], landscape |-> [x |-> 30, y |-> 40]]
LastShutter == [portrait |-> [x |-> 50, y |-> 60], landscape |-> [x |-> 70, y |-> 80]]

\* the settings document with the given modes and the fixed values of the
\* settings in fixed
SettingsWith(modes, fixed) ==
    [ ignoreOrientationLock |-> FALSE,
      folderMode            |-> modes["folder"],
      fixedFolder           |-> IF "folder" \in fixed THEN Some(SessionFolder) ELSE null,
      shutterPositionMode   |-> modes["shutterPosition"],
      fixedShutterPositions |-> IF "shutterPosition" \in fixed THEN Some(FixedShutter) ELSE null,
      labelingModeMode      |-> modes["labelingMode"],
      fixedLabelingMode     |-> IF "labelingMode" \in fixed THEN Some("text-group") ELSE null,
      captureMode           |-> modes["captureMode"],
      fixedCaptureMode      |-> IF "captureMode" \in fixed THEN Some("video") ELSE null,
      flashModeMode         |-> modes["flashMode"],
      fixedFlashMode        |-> IF "flashMode" \in fixed THEN Some("always") ELSE null,
      cameraModeMode        |-> modes["cameraPosition"],
      fixedCameraPosition   |-> IF "cameraPosition" \in fixed THEN Some("front") ELSE null ]

\* the last-used store and last-folder pointer with the values of the
\* settings in used recorded
LastUsedWith(used) ==
    [ shutterPositions |-> IF "shutterPosition" \in used THEN Some(LastShutter) ELSE null,
      labelingMode     |-> IF "labelingMode" \in used THEN Some("numbered-group") ELSE null,
      captureMode      |-> IF "captureMode" \in used THEN Some("video") ELSE null,
      flashMode        |-> IF "flashMode" \in used THEN Some("on") ELSE null,
      cameraPosition   |-> IF "cameraPosition" \in used THEN Some("front") ELSE null ]

\* none, one or all of the settings
Presences == {S \in SUBSET SettingNames : Cardinality(S) \in {0, 1, Cardinality(SettingNames)}}

-----------------------------------------------------------------------------
(* Codec specification: an index is drawn, formatted, and parsed back *)

MaxCodecSeq == 999
MaxCodecSub == 99

CodecLabels ==
    { <<"A">>, <<"B", "e", "a", "m">>, <<"a", ".", "b">>, <<"A", "_", "2">>,
      <<"A", "-", "1">>, <<"A", "-", "B">>, <<"1", "-", "2">>, <<"A", "-">>,
      <<"a", ".", "j", "p", "g", "b">>, <<"a", ".", "m", "p", "4">>,
      <<"1", "2">>, <<"a", "/", "b">> }

CodecSubs == {undefined} \cup (1..MaxCodecSub)

CodecIdle == codec = [pc |-> "idle"]

CodecInit ==
    \/ \E s \in 1..MaxCodecSeq, u \in CodecSubs :
          codec = [pc |-> "input", sequence |-> s, subSequence |-> u, textLabel |-> <<>>]
    \/ \E s \in {1, 12}, u \in CodecSubs, l \in CodecLabels :
          codec = [pc |-> "input", sequence |-> s, subSequence |-> u, textLabel |-> l]

Format ==
    /\ codec.pc = "input"
    /\ codec' = [pc |-> "formatted", sequence |-> codec.sequence,
                 subSequence |-> codec.subSequence, textLabel |-> codec.textLabel,
                 filename |-> formatFilename(codec.sequence, codec.subSequence, codec.textLabel)]
    /\ UNCHANGED <<scan, camvars>>

Parse ==
    /\ codec.pc = "formatted"
    /\ codec' = [pc |-> "parsed", sequence |-> codec.sequence,
                 subSequence |-> codec.subSequence, textLabel |-> codec.textLabel,
                 filename |-> codec.filename, parsed |-> parseFilename(codec.filename)]
    /\ UNCHANGED <<scan, camvars>>

ScanIdle == scan = [pc |-> "idle"]

SpecCodecInit == CodecInit /\ ScanIdle /\ CameraIdle

SpecCodecNext == Format \/ Parse

SpecCodec == SpecCodecInit /\ [][SpecCodecNext]_vars

-----------------------------------------------------------------------------
(* Rename specification: a session, a new name and a clock reading are
   drawn and renameFolder is run *)

pad2(n) == padStart(NatToString(n), 2, "0")

\* getTimestamp() when new Date() reads now (month as getMonth() gives it)
getTimestamp(now) ==
    NatToString(now.year) \o pad2(now.month + 1) \o pad2(now.date) \o <<"_">>
        \o pad2(now.hours) \o pad2(now.minutes) \o pad2(now.seconds)

\* `${BASE_DIR}/${name}`
pathUnder(name) == <<BASE_DIR, "/">> \o name

\* a directory at a path; holds tells its contents apart (the name it was
\* created under)
DirAt(path, holds) == [path |-> path, holds |-> holds]

\* what renameFolder computes before it calls RNFS.moveFile
renameTarget(oldName, newName, now) ==
    LET sanitizedNewName == sanitize(newName)
        timestampedName  == sanitizedNewName \o <<"_">> \o getTimestamp(now)
    IN  [name |-> timestampedName, path |-> pathUnder(timestampedName)]

\* the outcomes RNFS.moveFile(oldPath, newPath) can have on the directories
\* dirs: a move to a free path moves the directory; a move onto the
\* directory's own path either throws or succeeds and changes nothing; a move
\* onto another directory either throws or takes its place. threw: the
\* promise is rejected
moveFile(dirs, oldPath, newPath) ==
    LET old   == {d \in dirs : d.path = oldPath}
        moved == {DirAt(newPath, d.holds) : d \in old}
        fails == [threw |-> TRUE, dirs |-> dirs]
    IN  IF old = {} THEN {fails}
        ELSE IF newPath = oldPath THEN {fails, [threw |-> FALSE, dirs |-> dirs]}
        ELSE IF \E d \in dirs : d.path = newPath
        THEN {fails, [threw |-> FALSE,
                      dirs |-> {d \in dirs : d.path \notin {oldPath, newPath}} \cup moved]}
        ELSE {[threw |-> FALSE, dirs |-> (dirs \ old) \cup moved]}

\* renameFolder(oldName, newName): the directories afterwards and the record
\* returned (null when it throws)
renameFolder(dirs, oldName, newName, now) ==
    LET target == renameTarget(oldName, newName, now)
    IN  {[dirs |-> m.dirs, result |-> IF m.threw THEN null ELSE target] :
            m \in moveFile(dirs, pathUnder(oldName), target.path)}

\* the readings of the clock
Years == {2024}
Months == {0, 11}
Dates == {1, 31}
Hours == {9}
Minutes == {0, 59}
Seconds == {0}

ClockReadings ==
    [year : Years, month : Months, date : Dates, hours : Hours, minutes : Minutes,
     seconds : Seconds]

\* the base names sessions were created or renamed with, and when
SessionBases == {<<"A">>, <<"B">>}
CreatedAt == {now \in ClockReadings : now.month = 0 /\ now.minutes = 0}

\* createNewSessionFolder / renameFolder: `${base}_${getTimestamp()}`
SessionNames == {base \o <<"_">> \o getTimestamp(now) : base \in SessionBases, now \in CreatedAt}

\* what is typed as the new name
RenameChars == {"A", "B", "/"}
MaxNewNameLen == 2
NewNames == UNION {[1..n -> RenameChars] : n \in 0..MaxNewNameLen}

RenameInit ==
    \E oldName \in SessionNames, others \in SUBSET SessionNames,
       newName \in NewNames, now \in ClockReadings :
        codec = [pc |-> "rename", oldName |-> oldName, newName |-> newName, now |-> now,
                 dirs |-> {DirAt(pathUnder(n), n) : n \in {oldName} \cup others}]

RenameFolder ==
    /\ codec.pc = "rename"
    /\ \E outcome \in renameFolder(codec.dirs, codec.oldName, codec.newName, codec.now) :
          codec' = [pc |-> "renamed", oldName |-> codec.oldName, newName |-> codec.newName,
                    now |-> codec.now, before |-> codec.dirs, dirs |-> outcome.dirs,
                    result |-> outcome.result]
    /\ UNCHANGED <<scan, camvars>>

SpecRenameInit == RenameInit /\ ScanIdle /\ CameraIdle

SpecRename == SpecRenameInit /\ [][RenameFolder]_vars

-----------------------------------------------------------------------------
(* Resolver specification: a directory is drawn and scanned *)


ScanEntries ==
    { File(<<"0", "0", "1">> \o JPG, 1),
      File(<<"0", "0", "2", "-", "1">> \o JPG, 2),
      File(<<"B", "e", "a", "m", "-", "3">> \o JPG, 3),
      File(<<"0", "0", "3">> \o JPG, 4),
      File(<<"0", "0", "3", "_", "2">> \o JPG, 5),
      File(<<"0", "0", "5">> \o PNG, 6),
      File(<<"0", "0", "4", ".", "J", "P", "G">>, 7),
      File(<<"0", "0", "6">> \o MP4, 8),
      File(<<"0", "0", "9", ".", "t", "x", "t">>, 9),
      File(<<"a", ".", "j", "p", "g", "b">> \o JPG, 10),
      Directory(<<"a", "r", "c", "h", "i", "v", "e">>, 11) }

ScanSequences == {1, 3}
ScanSubs == {undefined, 1}
ScanLabels == {<<>>, <<"B", "e", "a", "m">>, <<"a", ".", "j", "p", "g", "b">>}

ScanInit ==
    \E d \in SUBSET ScanEntries, r \in BOOLEAN :
        scan = [pc |-> "input", dir |-> d, readable |-> r]

FindHighest ==
    /\ scan.pc = "input"
    /\ scan' = [pc |-> "highest", dir |-> scan.dir, readable |-> scan.readable,
                highest |-> findHighestSequence(scan.dir, scan.readable)]
    /\ UNCHANGED <<codec, camvars>>

GetUnique ==
    /\ scan.pc = "input"
    /\ scan.readable
    /\ \E s \in ScanSequences, u \in ScanSubs, l \in ScanLabels :
          scan' = [pc |-> "unique", dir |-> scan.dir, readable |-> scan.readable,
                   sequence |-> s, subSequence |-> u, textLabel |-> l,
                   filename |-> getUniqueFilename(scan.dir, s, u, l)]
    /\ UNCHANGED <<codec, camvars>>

SpecScanInit == ScanInit /\ CodecIdle /\ CameraIdle

SpecScanNext == FindHighest \/ GetUnique

SpecScan == SpecScanInit /\ [][SpecScanNext]_vars

-----------------------------------------------------------------------------
(* Folder listing specification: a base directory is drawn and listFolders
   and loadFolders are run on it *)

\* contents.some(c => c.isFile() && one of the five extensions) with the
\* name compared as it is written
hasMediaExact(contents) ==
    \E c \in contents :
       /\ c.isFile
       /\ \/ endsWith(c.name, JPG)
          \/ endsWith(c.name, JPEG)
          \/ endsWith(c.name, PNG)
          \/ endsWith(c.name, MP4)
          \/ endsWith(c.name, MOV)

\* contents.some(c => c.isFile() && name.toLowerCase() ends in one of the
\* five extensions)
hasMedia(contents) ==
    \E c \in contents :
       /\ c.isFile
       /\ LET name == toLowerCase(c.name)
          IN  \/ endsWith(name, JPG)
              \/ endsWith(name, JPEG)
              \/ endsWith(name, PNG)
              \/ endsWith(name, MP4)
              \/ endsWith(name, MOV)

\* listFolders on a base directory holding items, where contents[name] is
\* what the directory called name holds and canRead[name] tells whether
\* readDir of it succeeds: the directories, newest first, each with its
\* isEmpty flag (true when it cannot be read); nothing when readDir of the
\* base directory throws
listFoldersIn(items, readable, contents, canRead) ==
    IF ~readable THEN <<>>
    ELSE LET folders == sortByMtimeDesc({f \in items : ~f.isFile})
         IN  [i \in 1..Len(folders) |->
                 [ name    |-> folders[i].name,
                   path    |-> pathIn(folders[i].name),
                   isEmpty |-> IF canRead[folders[i].name]
                               THEN ~hasMedia(contents[folders[i].name])
                               ELSE TRUE ]]

\* loadFolders: the root entry, then name and path of what listFolders gave
loadFolders(list) ==
    <<RootEntry>> \o [i \in 1..Len(list) |-> [name |-> list[i].name, path |-> list[i].path]]

\* the latest modification time drawn
MaxMtime == 2

ListNames == {<<"S", "1">>, <<"S", "2", ".", "j", "p", "g">>}
ListContents ==
    SUBSET { File(<<"a", ".", "J", "P", "G">>, 1),
             File(<<"n", ".", "t", "x", "t">>, 1),
             Directory(<<"d", ".", "m", "p", "4">>, 1) }
StrayFile == File(<<"0", "0", "1">> \o MOV, 1)

ListInit ==
    \E present \in SUBSET ListNames, stray \in SUBSET {StrayFile}, readable \in BOOLEAN :
       \E mtime \in [present -> 1..MaxMtime], contents \in [present -> ListContents],
          canRead \in [present -> BOOLEAN] :
          scan = [ pc       |-> "input",
                   items    |-> {Directory(n, mtime[n]) : n \in present} \cup stray,
                   readable |-> readable,
                   contents |-> contents,
                   canRead  |-> canRead ]

\* listFolders has answered
ListFolders ==
    /\ scan.pc = "input"
    /\ scan' = [ pc       |-> "listed",
                 items    |-> scan.items,
                 readable |-> scan.readable,
                 contents |-> scan.contents,
                 canRead  |-> scan.canRead,
                 list     |-> listFoldersIn(scan.items, scan.readable,
                                            scan.contents, scan.canRead) ]
    /\ UNCHANGED <<codec, camvars>>

\* setFolders of loadFolders
LoadFolders ==
    /\ scan.pc = "listed"
    /\ scan' = [ pc       |-> "shown",
                 items    |-> scan.items,
                 readable |-> scan.readable,
                 contents |-> scan.contents,
                 canRead  |-> scan.canRead,
                 list     |-> scan.list,
                 folders  |-> loadFolders(scan.list) ]
    /\ UNCHANGED <<codec, camvars>>

SpecListInit == ListInit /\ CodecIdle /\ CameraIdle

SpecListNext == ListFolders \/ LoadFolders

SpecList == SpecListInit /\ [][SpecListNext]_vars

-----------------------------------------------------------------------------
(* The capture screen as a whole *)

\* the application has started on the folder; the effects of the first
\* render of CameraView are under way
StartedOn(folder, listing) ==
    /\ CodecIdle
    /\ ScanIdle
    /\ storage = [EmptyStorage EXCEPT
                     !.lastFolder = IF folder = BASE_DIR THEN null ELSE Some(folder)]
    /\ boot = setup(storage)
    /\ disk = {BASE_DIR, SessionFolder}
    /\ selector = null
    /\ app = [currentFolder |-> folder, showFolderSelector |-> FALSE]
    /\ fs = [f \in Folders |-> IF f = SessionFolder THEN listing ELSE {}]
    /\ archive = [f \in Folders |-> {}]
    /\ clock = Cardinality(listing)
    /\ cam = InitialCam
    /\ effects = MountEffects(folder)
    /\ photos = {}
    /\ video = null
    /\ indexSave = null
    /\ ghost = InitialGhost

\* the operator waits for a capture to be stored before asking for the next
NoCaptureInFlight == photos = {} /\ video = null

\* nothing the application started is still under way
Settled == NoCaptureInFlight /\ indexSave = null /\ effects = NoEffects

FolderEffects ==
    \/ LoadFolderDone
    \/ SyncSequenceDone

PhotoCapture ==
    \/ (NoCaptureInFlight /\ TakePhotoPress)
    \/ \E t \in photos : TakePhotoStore(t)

VideoCapture ==
    \/ (NoCaptureInFlight /\ StartRecording)
    \/ StopRecording
    \/ RecordingError
    \/ VideoSaved

ModeSwitch == \E m \in {"photo", "video"} : SetMode(m)

LabelingSwitch ==
    \/ CycleLabelingMode
    \/ CancelLabel

Grouping ==
    \/ NextSequence
    \/ \E text \in LabelTexts : TypeLabel(text)
    \/ HandleLabelSave

Retake ==
    \/ RetakeLast
    \/ \E e \in fs[app.currentFolder] : GalleryRetake(e)
    \/ CancelRetake

\* what the operator does in the index editor
IndexEditing(sequenceTexts, subSequenceTexts) ==
    \/ OpenIndexEditor
    \/ \E text \in sequenceTexts : TypeEditSequence(text)
    \/ \E text \in subSequenceTexts : TypeEditSubSequence(text)
    \/ HandleIndexSubmit
    \/ CancelIndexEdit
    \/ RequestCloseIndexEditor

\* what handleIndexSave does once fileExists has answered
IndexSaveDone ==
    \/ IndexSaveWarns
    \/ IndexSaveCommits

FolderSelection ==
    \/ OpenFolders
    \/ \E folder \in disk : handleFolderSelect(folder)
    \/ handleBack

\* A session folder, with an operator who does one thing at a time: a
\* capture is asked for when none is in flight, and the settings, the retake
\* target and the index are changed when the application has settled.
Init == StartedOn(SessionFolder, OnePhoto)

Next ==
    \/ FolderEffects
    \/ PhotoCapture
    \/ VideoCapture
    \/ IndexSaveDone
    \/ (Settled /\ ModeSwitch)
    \/ (Settled /\ LabelingSwitch)
    \/ (Settled /\ Retake)
    \/ (Settled /\ IndexEditing({<<"1">>}, {<<"1">>}))

Spec == Init /\ [][Next]_vars

\* Moving between the root and a session folder, at any pace: captures are
\* asked for while the effects of the folder change are still under way.
ResumeInit == StartedOn(BASE_DIR, SomePhotos)

ResumeNext ==
    \/ FolderSelection
    \/ FolderEffects
    \/ PhotoCapture
    \/ VideoCapture
    \/ ModeSwitch

SpecResume == ResumeInit /\ [][ResumeNext]_vars

\* Retakes and groups in a session folder, with the same one-thing-at-a-time
\* operator as above.
RetakeNext ==
    \/ FolderEffects
    \/ PhotoCapture
    \/ VideoCapture
    \/ (Settled /\ ModeSwitch)
    \/ (Settled /\ LabelingSwitch)
    \/ (Settled /\ Grouping)
    \/ (Settled /\ Retake)

SpecRetake == Init /\ [][RetakeNext]_vars

\* The index editor in a session folder, at any pace: the fields are edited
\* and submitted while an earlier submission is still waiting for fileExists.
IndexInit == StartedOn(SessionFolder, SomePhotos)

IndexNext ==
    \/ SyncSequenceDone
    \/ LabelingSwitch
    \/ IndexEditing(EditTexts, SubTexts)
    \/ IndexSaveDone

SpecIndex == IndexInit /\ [][IndexNext]_vars

\* The index editor with fields that pass and fields that do not: nothing,
\* zero, a number, a blank, a letter
IndexTexts == {<<>>, <<"0">>, <<"1">>, <<" ">>, <<"a">>}
SubIndexTexts == {<<>>, <<"0">>, <<"1">>}

EditNext ==
    \/ SyncSequenceDone
    \/ LabelingSwitch
    \/ IndexEditing(IndexTexts, SubIndexTexts)
    \/ IndexSaveDone

SpecEdit == IndexInit /\ [][EditNext]_vars

\* A session folder with an operator who changes the index, the labeling
\* mode and the folder while a video is recorded or being saved
RecordNext ==
    \/ FolderEffects
    \/ ModeSwitch
    \/ VideoCapture
    \/ LabelingSwitch
    \/ NextSequence
    \/ FolderSelection

SpecRecord == Init /\ [][RecordNext]_vars

\* Labels in a session folder that already holds a group labelled A: the
\* next-label prompt and the index editor, one thing at a time
EditLabels == {<<"A">>}
EditSubs == {<<>>}

LabelsNext ==
    \/ FolderEffects
    \/ (Settled /\ LabelingSwitch)
    \/ (Settled /\ Grouping)
    \/ (Settled /\ IndexEditing(EditLabels, EditSubs))
    \/ IndexSaveDone

SpecLabels == IndexInit /\ [][LabelsNext]_vars

\* A session folder with an operator who presses the shutter or a volume key
\* at any pace: a capture is asked for while an earlier one is being stored.
BurstNext ==
    \/ FolderEffects
    \/ TakePhotoPress
    \/ \E t \in photos : TakePhotoStore(t)
    \/ StartRecording
    \/ StopRecording
    \/ RecordingError
    \/ VideoSaved
    \/ ModeSwitch

SpecBurst == Init /\ [][BurstNext]_vars

\* the application is launched on what earlier runs persisted; the fixed
\* folder may have been deleted since
StartupInit ==
    /\ CodecIdle
    /\ ScanIdle
    /\ \E modes \in [SettingNames -> SettingModes], fixed \in Presences, used \in Presences :
          storage = [ settings   |-> SettingsWith(modes, fixed),
                      lastUsed   |-> LastUsedWith(used),
                      lastFolder |-> IF "folder" \in used THEN Some(OtherFolder) ELSE null ]
    /\ \E gone \in SUBSET {SessionFolder} : disk = {BASE_DIR, SessionFolder, OtherFolder} \ gone
    /\ boot = InitialBoot
    /\ selector = null
    /\ app = [currentFolder |-> null, showFolderSelector |-> FALSE]
    /\ fs = [f \in Folders |-> {}]
    /\ archive = [f \in Folders |-> {}]
    /\ clock = 0
    /\ cam = InitialCam
    /\ effects = NoEffects
    /\ photos = {}
    /\ video = null
    /\ indexSave = null
    /\ ghost = InitialGhost

SpecStartup == StartupInit /\ [][Setup]_vars

\* what a store may hold of an item: nothing, something unreadable, text
\* that does not parse, or the value
Stored(value) == {null, Unreadable, Malformed, Some(value)}

\* the application is launched on stores that may have been damaged; the
\* settings document, when it is there, has all six settings in one mode
LoadInit ==
    /\ CodecIdle
    /\ ScanIdle
    /\ \E settings \in {null, Unreadable, Malformed}
                         \cup {SettingsWith([n \in SettingNames |-> mode], SettingNames) :
                                  mode \in SettingModes},
          lastFolder \in Stored(OtherFolder),
          used \in SUBSET LastUsedKeys, damaged \in SUBSET LastUsedKeys :
          storage = [ settings   |-> settings,
                      lastUsed   |-> [k \in LastUsedKeys |->
                                        IF k \in damaged
                                        THEN (IF k \in used THEN Unreadable ELSE Malformed)
                                        ELSE LastUsedWith(IF k \in used THEN SettingNames ELSE {})[k]],
                      lastFolder |-> lastFolder ]
    /\ \E gone \in SUBSET {SessionFolder} : disk = {BASE_DIR, SessionFolder, OtherFolder} \ gone
    /\ boot = InitialBoot
    /\ selector = null
    /\ app = [currentFolder |-> null, showFolderSelector |-> FALSE]
    /\ fs = [f \in Folders |-> {}]
    /\ archive = [f \in Folders |-> {}]
    /\ clock = 0
    /\ cam = InitialCam
    /\ effects = NoEffects
    /\ photos = {}
    /\ video = null
    /\ indexSave = null
    /\ ghost = InitialGhost

\* setup is called by the effect of the first render and each of its awaits
\* settles, so it runs to its end
SpecLoad == LoadInit /\ [][Setup]_vars /\ WF_boot(Setup)

\* Runs of the application over launches: all six settings start in one mode
\* with their fixed values stored; the operator changes the labeling mode,
\* the capture mode, the flash, the camera and the folder, sets modes to
\* lastUsed, and closes and launches the application
SettingsInit ==
    /\ CodecIdle
    /\ ScanIdle
    /\ \E mode \in SettingModes :
          storage = [EmptyStorage EXCEPT
                        !.settings = SettingsWith([n \in SettingNames |-> mode], SettingNames)]
    /\ disk = {BASE_DIR, SessionFolder, OtherFolder}
    /\ boot = InitialBoot
    /\ selector = null
    /\ app = [currentFolder |-> null, showFolderSelector |-> FALSE]
    /\ fs = [f \in Folders |-> {}]
    /\ archive = [f \in Folders |-> {}]
    /\ clock = 0
    /\ cam = InitialCam
    /\ effects = NoEffects
    /\ photos = {}
    /\ video = null
    /\ indexSave = null
    /\ ghost = InitialGhost

SettingsNext ==
    \/ Setup
    \/ FolderEffects
    \/ CycleLabelingMode
    \/ CancelLabel
    \/ ModeSwitch
    \/ ToggleFlash
    \/ SwitchCamera
    \/ FolderSelection
    \/ (\E modeKey \in ModeKeys : SwitchToLastUsed(modeKey))
    \/ Launch

SpecSettings == SettingsInit /\ [][SettingsNext]_vars

\* The settings modal over the capture screen of a session folder: the
\* runtime values are changed while the modal is closed, the modes while it
\* is open
ModalInit ==
    /\ CodecIdle
    /\ ScanIdle
    /\ \E settings \in {null} \cup {SettingsWith([n \in SettingNames |-> mode], SettingNames) :
                                      mode \in SettingModes} :
          storage = [EmptyStorage EXCEPT !.settings = settings,
                                         !.lastFolder = Some(SessionFolder)]
    /\ boot = setup(storage)
    /\ disk = {BASE_DIR, SessionFolder}
    /\ selector = null
    /\ app = [currentFolder |-> SessionFolder, showFolderSelector |-> FALSE]
    /\ fs = [f \in Folders |-> {}]
    /\ archive = [f \in Folders |-> {}]
    /\ clock = 0
    /\ cam = InitialCam
    /\ effects = NoEffects
    /\ photos = {}
    /\ video = null
    /\ indexSave = null
    /\ ghost = InitialGhost

ModalKeys == {"folderMode", "labelingModeMode", "captureMode"}

ModalNext ==
    \/ (boot.modal = null /\ CycleLabelingMode)
    \/ (boot.modal = null /\ CancelLabel)
    \/ (boot.modal = null /\ ModeSwitch)
    \/ OpenSettings
    \/ SettingsLoaded
    \/ (\E key \in ModalKeys, value \in SettingModes : UpdateSetting(key, value))
    \/ HandleSettingsSave
    \/ CloseSettings

SpecModal == ModalInit /\ [][ModalNext]_vars

\* The folder selector over a root that holds some session folders; the
\* application runs on one of the folders there are
FoldersInit ==
    /\ CodecIdle
    /\ ScanIdle
    /\ \E sessions \in SUBSET (Folders \ {BASE_DIR}) : disk = {BASE_DIR} \cup sessions
    /\ \E folder \in disk :
          /\ app = [currentFolder |-> folder, showFolderSelector |-> FALSE]
          /\ storage = [EmptyStorage EXCEPT
                           !.lastFolder = IF folder = BASE_DIR THEN null ELSE Some(folder)]
          /\ effects = MountEffects(folder)
    /\ boot = setup(storage)
    /\ selector = null
    /\ fs = [f \in Folders |-> IF f = SessionFolder /\ f \in disk THEN OnePhoto ELSE {}]
    /\ archive = [f \in Folders |-> {}]
    /\ clock = 1
    /\ cam = InitialCam
    /\ photos = {}
    /\ video = null
    /\ indexSave = null
    /\ ghost = InitialGhost

FoldersNext ==
    \/ FolderEffects
    \/ OpenFolders
    \/ LoadFoldersDone
    \/ handleBack
    \/ \E folder \in {RootEntry} \cup listFolders(Folders) :
          \/ HandlePress(folder)
          \/ HandleDelete(folder)
          \/ HandleLongPress(folder)
          \/ ToggleSelected(folder)
    \/ cancelSelection
    \/ selectAll
    \/ HandleBulkDelete

SpecFolders == FoldersInit /\ [][FoldersNext]_vars

\* Sessions: the application runs on a session folder beside another one; the
\* operator, one thing at a time, sets groups, labels and retake targets,
\* then selects another folder, renames the current one, or deletes it and
\* goes back
SessionInit ==
    /\ CodecIdle
    /\ ScanIdle
    /\ storage = [EmptyStorage EXCEPT !.lastFolder = Some(SessionFolder)]
    /\ boot = setup(storage)
    /\ disk = {BASE_DIR, SessionFolder, OtherFolder}
    /\ selector = null
    /\ app = [currentFolder |-> SessionFolder, showFolderSelector |-> FALSE]
    /\ fs = [f \in Folders |-> IF f = SessionFolder THEN SomePhotos
                                ELSE IF f = OtherFolder THEN OnePhoto ELSE {}]
    /\ archive = [f \in Folders |-> {}]
    /\ clock = Cardinality(SomePhotos)
    /\ cam = InitialCam
    /\ effects = MountEffects(SessionFolder)
    /\ photos = {}
    /\ video = null
    /\ indexSave = null
    /\ ghost = InitialGhost

SessionNext ==
    \/ FolderEffects
    \/ (Settled /\ LabelingSwitch)
    \/ (Settled /\ Grouping)
    \/ (Settled /\ Retake)
    \/ (Settled /\ HandleRenameSave)
    \/ (Settled /\ OpenFolders)
    \/ LoadFoldersDone
    \/ handleBack
    \/ \E folder \in {RootEntry} \cup listFolders(Folders) :
          \/ HandlePress(folder)
          \/ HandleDelete(folder)

SpecSession == SessionInit /\ [][SessionNext]_vars

-----------------------------------------------------------------------------
(* Claims about the codec *)

\* the index a round trip is expected to give back
ExpectedIndex(sequence, subSequence, textLabel) ==
    IF textLabel # <<>>
    THEN IF subSequence = undefined
         THEN [textLabel |-> textLabel]
         ELSE [textLabel |-> textLabel, subSequence |-> subSequence]
    ELSE IF subSequence = undefined
         THEN [sequence |-> sequence]
         ELSE [sequence |-> sequence, subSequence |-> subSequence]

\* C1: for every sequence and every sub-sequence (absent or a number) with no
\* text label, parsing the formatted file name gives back exactly that
\* sequence and sub-sequence, and no text label.
C1_SequenceRoundTrip ==
    (codec.pc = "parsed" /\ codec.textLabel = <<>>)
        => codec.parsed = ExpectedIndex(codec.sequence, codec.subSequence, <<>>)

C1_Witness ==
    /\ codec.pc = "parsed"
    /\ codec.textLabel = <<>>
    /\ codec.sequence = 7
    /\ codec.subSequence = 12
    /\ codec.filename = <<"0", "0", "7", "-", "1", "2">> \o JPG
    /\ codec.parsed = [sequence |-> 7, subSequence |-> 12]

\* a label the claim ranges over: non-empty, not all digits, free of the
\* characters formatFilename replaces
IsPlainLabel(l) ==
    /\ l # <<>>
    /\ ~IsNumeric(l)
    /\ \A i \in 1..Len(l) : l[i] \notin IllegalChars

\* C2: for every plain text label (whatever '-' or '.' it contains) and every
\* sub-sequence, parsing the formatted file name gives back exactly that label
\* and sub-sequence, and no sequence.
C2_LabelRoundTrip ==
    (codec.pc = "parsed" /\ IsPlainLabel(codec.textLabel))
        => codec.parsed = ExpectedIndex(codec.sequence, codec.subSequence, codec.textLabel)

-----------------------------------------------------------------------------
(* Claims about the resolver *)

\* the stem of a recognized media file: the name without its extension
MediaStem(name) ==
    LET low == toLowerCase(name)
    IN  IF endsWith(low, JPEG) THEN SubSeq(name, 1, Len(name) - 5)
        ELSE SubSeq(name, 1, Len(name) - 4)

\* the sequence a media file name denotes by the file name grammar
\* (NNN.ext or NNN-S.ext), 0 if it denotes none
DenotedSequence(name) ==
    LET stem == MediaStem(name)
        cut  == lastIndexOf(stem, <<"-">>)
    IN  IF IsNumeric(stem) THEN DigitsToNat(stem)
        ELSE IF cut > 0 /\ IsNumeric(SubSeq(stem, 1, cut - 1))
                        /\ IsNumeric(SubSeq(stem, cut + 1, Len(stem)))
             THEN DigitsToNat(SubSeq(stem, 1, cut - 1))
             ELSE 0

MaxOf(S) == IF S = {} THEN 0 ELSE CHOOSE m \in S : \A n \in S : n <= m

\* C3: findHighestSequence returns the maximum sequence over all recognized
\* media files (.jpg, .jpeg, .png, .mp4, .mov in any letter case) whose name
\* denotes a numeric sequence, and 0 for an empty, unreadable or all-text
\* folder.
C3_HighestSequence ==
    scan.pc = "highest" =>
        scan.highest =
            IF scan.readable
            THEN MaxOf({DenotedSequence(f.name) :
                            f \in {e \in scan.dir : e.isFile /\ isMedia(e.name)}})
            ELSE 0

\* the name with its trailing ".jpg" cut off
WithoutExtension(filename) == SubSeq(filename, 1, Len(filename) - Len(JPG))

Suffixed(base, k) == base \o <<"_">> \o NatToString(k) \o JPG

\* C8: getUniqueFilename returns the formatted name if it does not exist,
\* otherwise <base>_K.jpg for the smallest K >= 2 that does not exist, and the
\* returned name never exists in the folder.
C8_UniqueFilename ==
    scan.pc = "unique" =>
        LET formatted == formatFilename(scan.sequence, scan.subSequence, scan.textLabel)
            base      == WithoutExtension(formatted)
        IN  /\ ~exists(scan.dir, scan.filename)
            /\ IF ~exists(scan.dir, formatted)
               THEN scan.filename = formatted
               ELSE \E k \in 2..(Cardinality(scan.dir) + 2) :
                        /\ scan.filename = Suffixed(base, k)
                        /\ \A j \in 2..(k - 1) : exists(scan.dir, Suffixed(base, j))


-----------------------------------------------------------------------------
(* Claims about the capture screen *)

\* the name the index a capture is aimed at formats to
wantedName(t) == formatFilename(targetSeq(t), targetSub(t), targetText(t))

\* no capture has been stored since the application started
NothingStoredYet == ghost.saved = 0

\* C4: after a switch into a non-root folder whose highest sequence is h >= 1,
\* the first capture that is not a retake is written under sequence h + 1
\* (and so under none that is h or less), photo or video, however the
\* capture request and syncSequence are ordered.
C4_ResumeAfterHighest ==
    [][LET h == findHighestSequence(fs[app.currentFolder], TRUE)
       IN  /\ \A t \in photos :
                (/\ TakePhotoStore(t)
                 /\ t.mounted /\ t.folder # BASE_DIR /\ t.retakeTarget = null
                 /\ NothingStoredYet /\ h >= 1)
                => t.sequence = h + 1
           /\ (/\ VideoSaved
               /\ video.mounted /\ video.folder # BASE_DIR /\ ~video.retakePending
               /\ NothingStoredYet /\ h >= 1)
              => video.sequence = h + 1]_vars

\* C5: a retake whose target file exists moves the old file to
\* archive/<name>_<epochMillis>.jpg and stores the new capture under the
\* target's file name.
C5_RetakeArchivesAndReplaces ==
    [][\A t \in photos :
          (/\ TakePhotoStore(t)
           /\ t.retakeTarget # null
           /\ exists(fs[t.folder], wantedName(t)))
          => /\ entryId(fs'[t.folder], wantedName(t)) = clock'
             /\ \E a \in archive'[t.folder], millis \in 0..clock :
                   /\ a.mtime = entryId(fs[t.folder], wantedName(t))
                   /\ a.name = archiveFileName(wantedName(t), millis)]_vars

\* C6: when the old file of a retake is not archived, the new capture is not
\* saved and the retake target stays pending.
C6_FailedArchiveAbortsRetake ==
    [][\A t \in photos :
          (/\ TakePhotoStore(t)
           /\ t.retakeTarget # null /\ t.mounted
           /\ exists(fs[t.folder], wantedName(t))
           /\ ~\E a \in archive'[t.folder] :
                  a.mtime = entryId(fs[t.folder], wantedName(t)))
          => /\ ~\E e \in fs'[t.folder] : e.mtime = clock'
             /\ cam'.retakeTarget = cam.retakeTarget]_vars

\* the media files of a folder and of its archive/
Kept(folder) == {e \in fs[folder] \cup archive[folder] : e.isFile}

\* C7: with one capture in flight at a time, no sequence of photo captures,
\* video captures, retakes, manual index edits and mode switches overwrites or
\* deletes a media file: every file that was there at the start or was saved
\* since (files are told apart by their creation tick) is still in its folder
\* or in that folder's archive/.
C7_NoCaptureLost ==
    \A tick \in 1..clock : \E f \in Folders : \E e \in Kept(f) : e.mtime = tick

\* C7 witness: two captures were stored on an index whose name was taken
\* (a retake of 001.jpg, or the index set back to 1 and confirmed), and the
\* first file and both captures are there.
C7_Witness ==
    /\ ghost.saved = 2
    /\ NoCaptureInFlight
    /\ exists(fs[SessionFolder], <<"0", "0", "1">> \o JPG)
    /\ exists(fs[SessionFolder], <<"0", "0", "1", "_", "2">> \o JPG)
    /\ exists(fs[SessionFolder], <<"0", "0", "1", "_", "3">> \o JPG)

\* the step leaves the pending index alone and clears the retake target
RetakeOver ==
    /\ cam'.sequence = cam.sequence
    /\ cam'.subSequence = cam.subSequence
    /\ cam'.retakeTarget = null

\* C9: a capture that was asked for while a retake target was set leaves
\* sequence and subSequence as they were and clears the retake target, and so
\* does cancelling the retake.
C9_RetakeLeavesIndex ==
    [][/\ \A t \in photos :
             (TakePhotoStore(t) /\ t.mounted /\ t.retakeTarget # null) => RetakeOver
       /\ (VideoSaved /\ video.mounted /\ video.retakePending) => RetakeOver
       /\ CancelRetake => RetakeOver]_vars

\* C10: an index whose formatted file name exists is committed only by a
\* submission made while the overwrite warning for that same index stood,
\* never by the first submission of it; editing either field clears the
\* warning.
C10_OverwriteNeedsConfirmation ==
    [][/\ (IndexSaveCommits /\ exists(fs[indexSave.folder], indexSave.filename))
          => indexSave.indexWarning = warningFor(indexSave.filename)
       /\ (\E text \in EditTexts : TypeEditSequence(text)) => cam'.indexWarning = null
       /\ (\E text \in SubTexts : TypeEditSubSequence(text)) => cam'.indexWarning = null]_vars
\* the step writes no file and advances no counter
CaptureRejected ==
    /\ fs' = fs
    /\ cam'.sequence = cam.sequence
    /\ cam'.subSequence = cam.subSequence

\* C11: in text-group mode no capture is accepted while no non-empty text
\* label has been set: a photo or a video asked for with the label still
\* empty (the prompt open, or cancelled) writes no file and advances no counter.
C11_TextGroupNeedsLabel ==
    [][/\ \A t \in photos :
             (/\ TakePhotoStore(t)
              /\ t.mounted /\ t.retakeTarget = null
              /\ t.labelingMode = "text-group" /\ t.textLabel = <<>>)
             => CaptureRejected
       /\ (/\ VideoSaved
           /\ video.mounted /\ ~video.retakePending
           /\ video.labelingMode = "text-group" /\ video.textLabel = <<>>)
          => CaptureRejected]_vars
\* the step accepts label as the new group: it is the text label, the
\* sub-sequence restarts at 1
LabelAccepted(label) ==
    /\ cam'.textLabel = label
    /\ cam'.subSequence = 1

\* the step rejects the label: the text label, the sub-sequence and the used
\* labels are as before and the prompt is still open
LabelRejected ==
    /\ cam'.textLabel = cam.textLabel
    /\ cam'.subSequence = cam.subSequence
    /\ cam'.usedLabels = cam.usedLabels
    /\ cam'.isEnteringLabel

C19_OneCaptureInFlight == inFlight <= 1
-----------------------------------------------------------------------------
(* Claims about startup and the settings *)

\* what the resolution rule gives: the fixed value in mode fixed, the
\* last-used value in mode lastUsed, the hard default when that value is not
\* there or the mode is default
Resolved(mode, fixed, lastUsed, hardDefault) ==
    IF mode = "fixed" THEN (IF fixed = null THEN hardDefault ELSE fixed.value)
    ELSE IF mode = "lastUsed" THEN (IF lastUsed = null THEN hardDefault ELSE lastUsed.value)
    ELSE hardDefault

\* setup is over
Started == ~boot.isLoading

\* the five settings other than the folder are resolved by the rule, with the
\* hard defaults of App, by setup and by getInitialValue alike
ValuesResolved ==
    LET settings == boot.appSettings
        Rule(modeKey, fixedKey, lastUsedKey, hardDefault) ==
            Resolved(settings[modeKey], settings[fixedKey], storage.lastUsed[lastUsedKey],
                     hardDefault)
        Helper(modeKey, fixedKey, lastUsedKey, hardDefault) ==
            getInitialValue(storage, settings, modeKey, fixedKey, lastUsedKey, hardDefault)
    IN  /\ boot.shutterPositions =
              Rule("shutterPositionMode", "fixedShutterPositions", "shutterPositions", Centered)
        /\ boot.initialLabelingMode =
              Rule("labelingModeMode", "fixedLabelingMode", "labelingMode", "single")
        /\ boot.initialCaptureMode =
              Rule("captureMode", "fixedCaptureMode", "captureMode", "photo")
        /\ boot.initialFlashMode =
              Rule("flashModeMode", "fixedFlashMode", "flashMode", "off")
        /\ boot.initialCameraPosition =
              Rule("cameraModeMode", "fixedCameraPosition", "cameraPosition", "back")
        /\ Helper("shutterPositionMode", "fixedShutterPositions", "shutterPositions", Centered)
              = boot.shutterPositions
        /\ Helper("labelingModeMode", "fixedLabelingMode", "labelingMode", "single")
              = boot.initialLabelingMode
        /\ Helper("captureMode", "fixedCaptureMode", "captureMode", "photo")
              = boot.initialCaptureMode
        /\ Helper("flashModeMode", "fixedFlashMode", "flashMode", "off")
              = boot.initialFlashMode
        /\ Helper("cameraModeMode", "fixedCameraPosition", "cameraPosition", "back")
              = boot.initialCameraPosition

\* C13 as stated: all six settings, the folder among them, are resolved by
\* the rule from the mode, the fixed value and the last-used value alone.
C13_ResolvedByRuleAlone ==
    Started =>
        /\ ValuesResolved
        /\ app.currentFolder =
              Resolved(boot.appSettings.folderMode, boot.appSettings.fixedFolder,
                       storage.lastFolder, BASE_DIR)

\* the fixed folder, when it is still on the disk
FixedFolderThere ==
    IF boot.appSettings.fixedFolder # null /\ boot.appSettings.fixedFolder.value \in disk
    THEN boot.appSettings.fixedFolder ELSE null

\* C13: startup resolves each setting from its own mode, fixed value and
\* last-used value: the fixed value in mode fixed, the last-used value in
\* mode lastUsed, the hard default when that value is absent or the mode is
\* default; a fixed folder counts only while its path exists on the disk.
C13_SettingsResolved ==
    Started =>
        /\ ValuesResolved
        /\ app.currentFolder =
              Resolved(boot.appSettings.folderMode, FixedFolderThere, storage.lastFolder, BASE_DIR)

\* C13 witness: setup has run with one setting in each mode and value present:
\* labeling mode fixed, flash mode last used, folder last used.
C13_Witness ==
    /\ Started
    /\ boot.appSettings.labelingModeMode = "fixed"
    /\ boot.initialLabelingMode = "text-group"
    /\ boot.appSettings.flashModeMode = "lastUsed"
    /\ boot.initialFlashMode = "on"
    /\ boot.appSettings.folderMode = "lastUsed"
    /\ app.currentFolder = OtherFolder
    /\ boot.appSettings.captureMode = "default"
    /\ boot.appSettings.fixedCaptureMode # null
    /\ boot.initialCaptureMode = "photo"

\* C15: with folderMode fixed and the fixed folder absent from the settings
\* or from the disk, setup ends on the root folder.
C15_MissingFixedFolderIsRoot ==
    (/\ storage.settings # null
     /\ storage.settings.folderMode = "fixed"
     /\ (storage.settings.fixedFolder = null \/ storage.settings.fixedFolder.value \notin disk))
    => (Started => app.currentFolder = BASE_DIR)

\* C15 witness: setup is over, the fixed folder is stored and is not on the
\* disk, and the current folder is the root.
C15_Witness ==
    /\ Started
    /\ boot.appSettings.folderMode = "fixed"
    /\ boot.appSettings.fixedFolder = Some(SessionFolder)
    /\ SessionFolder \notin disk
    /\ app.currentFolder = BASE_DIR

\* C16: a setting in mode default starts on its documented default: root
\* folder, centered shutter, single labeling, photo capture, flash auto,
\* front camera.
C16_DocumentedDefaults ==
    Started =>
        /\ boot.appSettings.folderMode = "default" => app.currentFolder = BASE_DIR
        /\ boot.appSettings.shutterPositionMode = "default" => boot.shutterPositions = Centered
        /\ boot.appSettings.labelingModeMode = "default" => boot.initialLabelingMode = "single"
        /\ boot.appSettings.captureMode = "default" => boot.initialCaptureMode = "photo"
        /\ boot.appSettings.flashModeMode = "default" => boot.initialFlashMode = "auto"
        /\ boot.appSettings.cameraModeMode = "default" => boot.initialCameraPosition = "front"
\* C14: every runtime change of the folder, the labeling mode, the capture
\* mode, the flash mode or the camera position is persisted as the last-used
\* value of that setting, whatever the modes are.
C14_RuntimeChangesPersisted ==
    [][ (Started /\ boot' = boot) =>
          /\ (app.showFolderSelector /\ app'.currentFolder # app.currentFolder)
                => storage'.lastFolder = Some(app'.currentFolder)
          /\ (app' = app /\ cam'.labelingMode # cam.labelingMode)
                => storage'.lastUsed["labelingMode"] = Some(cam'.labelingMode)
          /\ (app' = app /\ cam'.mode # cam.mode)
                => storage'.lastUsed["captureMode"] = Some(cam'.mode)
          /\ (app' = app /\ cam'.flash # cam.flash)
                => storage'.lastUsed["flashMode"] = Some(cam'.flash)
          /\ (app' = app /\ cam'.cameraPosition # cam.cameraPosition)
                => storage'.lastUsed["cameraPosition"] = Some(cam'.cameraPosition) ]_vars
-----------------------------------------------------------------------------
(* Claims about the folder selector *)

\* the paths selected in the folder selector
selectedPaths(sel) == IF sel = null THEN {} ELSE sel.selectedFolders

\* C17: no step of the folder selector removes BASE_DIR, and the root's path
\* enters the selection by Select All only (the whole list selected), never
\* by a press or a long press.
C17_RootNeverDeleted ==
    [][ /\ BASE_DIR \in disk => BASE_DIR \in disk'
        /\ (BASE_DIR \in selectedPaths(selector') /\ BASE_DIR \notin selectedPaths(selector))
              => /\ selector.selectionMode
                 /\ selector'.selectedFolders = {f.path : f \in selector.folders} ]_vars

\* C17 witness: a bulk delete ran with the root's path in the selection
\* (after Select All); every session folder is gone and BASE_DIR is there.
C17_Witness ==
    /\ BASE_DIR \in ghost.bulk
    /\ SessionFolder \in ghost.bulk
    /\ disk = {BASE_DIR}
    /\ selector # null
    /\ ~selector.selectionMode
-----------------------------------------------------------------------------
(* Claims about renaming *)

\* the timestamp YYYYMMDD_HHMMSS of a clock reading, digit by digit
Stamp(now) ==
    LET two(n) == <<DigitChars[(n \div 10) + 1], DigitChars[(n % 10) + 1]>>
    IN  two(now.year \div 100) \o two(now.year % 100) \o two(now.month + 1) \o two(now.date)
            \o <<"_">> \o two(now.hours) \o two(now.minutes) \o two(now.seconds)

\* C18: renameFolder returns the sanitized new name followed by '_' and the
\* timestamp, at a path that differs from the old path; afterwards nothing is
\* at the old path and the directory's contents are at the new path.
C18_RenameMovesToFreshPath ==
    codec.pc = "renamed" =>
        /\ codec.result # null
        /\ codec.result.name = sanitize(codec.newName) \o <<"_">> \o Stamp(codec.now)
        /\ codec.result.path # pathUnder(codec.oldName)
        /\ \A d \in codec.dirs : d.path # pathUnder(codec.oldName)
        /\ DirAt(codec.result.path, codec.oldName) \in codec.dirs
-----------------------------------------------------------------------------
(* Claims about the change of session *)

\* the sequencing state c is the one the directory dir gives and nothing else
Rebuilt(c, dir) ==
    /\ c.sequence = findHighestSequence(dir, TRUE) + 1
    /\ c.subSequence = 1
    /\ c.usedLabels = labelsOf(listPhotos(dir, TRUE))
    /\ c.textLabel = <<>>
    /\ c.retakeTarget = null

\* C20: when the effects of a change of session (a folder selected, the
\* current folder renamed, back to the root) have run, the sequencing state
\* is rebuilt from the new folder and nothing of the previous session is left.
C20_SessionStateRebuilt ==
    [][ (effects # NoEffects /\ effects' = NoEffects) => Rebuilt(cam', fs'[app'.currentFolder]) ]_vars
-----------------------------------------------------------------------------
(* Claims about leaving the folder selector *)

Degraded ==
    /\ app.currentFolder \in Folders
    /\ (storage.settings = null \/ throws(storage.settings))
          => /\ boot.appSettings = getDefaultSettings
             /\ boot.shutterPositions = Centered
             /\ boot.initialLabelingMode = "single"
             /\ boot.initialCaptureMode = "photo"
             /\ boot.initialFlashMode = "off"
             /\ boot.initialCameraPosition = "back"
    /\ (boot.appSettings.folderMode = "lastUsed"
            /\ (storage.lastFolder = null \/ throws(storage.lastFolder)))
          => app.currentFolder = BASE_DIR
    /\ throws(storage.lastUsed["shutterPositions"])
          => boot.shutterPositions \in {Centered, FixedShutter}
    /\ (boot.appSettings.labelingModeMode = "lastUsed"
            /\ (storage.lastUsed["labelingMode"] = null \/ throws(storage.lastUsed["labelingMode"])))
          => boot.initialLabelingMode = "single"
    /\ (boot.appSettings.captureMode = "lastUsed"
            /\ (storage.lastUsed["captureMode"] = null \/ throws(storage.lastUsed["captureMode"])))
          => boot.initialCaptureMode = "photo"
    /\ (boot.appSettings.flashModeMode = "lastUsed"
            /\ (storage.lastUsed["flashMode"] = null \/ throws(storage.lastUsed["flashMode"])))
          => boot.initialFlashMode = "off"
    /\ (boot.appSettings.cameraModeMode = "lastUsed"
            /\ (storage.lastUsed["cameraPosition"] = null
                  \/ throws(storage.lastUsed["cameraPosition"])))
          => boot.initialCameraPosition = "back"

-----------------------------------------------------------------------------
(* Claims about the capture index *)

\* an index with exactly one primary key: a sequence (a number) or a label
OnePrimaryKey(index) ==
    /\ ("sequence" \in DOMAIN index) # ("textLabel" \in DOMAIN index)
    /\ "sequence" \in DOMAIN index => index.sequence \in Nat

\* the media files of the current folder, which the load effect and the
\* gallery parse
parsedFiles == {e \in fs[app.currentFolder] : e.isFile /\ isMedia(e.name)}

\* C23: every index parsed from a media file name of the folder, the retake
\* target, and the retake target a capture in flight closed over, has either a
\* sequence or a text label, never both and never neither.
C23_OnePrimaryKey ==
    /\ \A e \in parsedFiles : OnePrimaryKey(parseFilename(e.name))
    /\ cam.retakeTarget # null => OnePrimaryKey(cam.retakeTarget)
    /\ \A t \in photos : t.retakeTarget # null => OnePrimaryKey(t.retakeTarget)

\* C23 witness: captures have been stored, the folder holds numbered,
\* grouped and labelled names, and a retake target with a label is set.
C23_Witness ==
    /\ ghost.saved > 0
    /\ \E e \in parsedFiles : "subSequence" \in DOMAIN parseFilename(e.name)
                               /\ "sequence" \in DOMAIN parseFilename(e.name)
    /\ cam.retakeTarget # null
    /\ "textLabel" \in DOMAIN cam.retakeTarget

-----------------------------------------------------------------------------
(* Captures and the counters *)

\* a capture has just been stored and no retake target was set
CaptureStored == ghost'.saved = ghost.saved + 1 /\ cam.retakeTarget = null

\* C24: a stored capture, photo or video, that is not a retake and is made
\* in single mode increases sequence by exactly 1 and leaves subSequence,
\* textLabel and the labeling mode as they were
C24_SingleCaptureAdvancesSequence ==
    [][(CaptureStored /\ cam.labelingMode = "single")
          => /\ cam'.sequence = cam.sequence + 1
             /\ cam'.subSequence = cam.subSequence
             /\ cam'.textLabel = cam.textLabel
             /\ cam'.labelingMode = cam.labelingMode]_vars

\* a photo and a video were stored in single mode, one after the other
C24_Witness ==
    /\ ghost.saved = 2
    /\ cam.labelingMode = "single"
    /\ cam.retakeTarget = null
    /\ cam.sequence = findHighestSequence(fs[SessionFolder], TRUE) + 1
    /\ \E f \in fs[SessionFolder] : endsWith(f.name, MP4)
    /\ Cardinality({f \in fs[SessionFolder] : endsWith(f.name, JPG)}) >= 2

\* C25: a stored capture that is not a retake and is made in numbered-group
\* or text-group mode increases subSequence by exactly 1 and leaves sequence
\* and textLabel as they were; in text-group mode the active label is among
\* the used labels after the capture
C25_GroupCaptureAdvancesSub ==
    [][(CaptureStored /\ cam.labelingMode # "single")
          => /\ cam'.subSequence = cam.subSequence + 1
             /\ cam'.sequence = cam.sequence
             /\ cam'.textLabel = cam.textLabel
             /\ cam.labelingMode = "text-group" => cam'.textLabel \in cam'.usedLabels]_vars

\* C26: the next-group button in numbered-group mode increases sequence by
\* exactly 1 and sets subSequence to 1; the labeling mode, the text label,
\* the used labels, the retake target and everything else stay as they were
C26_AdvanceGroup ==
    [][(NextSequence /\ cam.labelingMode = "numbered-group")
          => /\ cam' = [cam EXCEPT !.sequence = cam.sequence + 1, !.subSequence = 1]
             /\ UNCHANGED <<app, fs, archive, photos, video, indexSave, storage>>]_vars

\* a group with one photo was closed: the next group is open at its start
C26_Witness ==
    /\ cam.labelingMode = "numbered-group"
    /\ cam.sequence = 3
    /\ cam.subSequence = 1
    /\ \E f \in fs[SessionFolder] : f.name = <<"0", "0", "2", "-", "1">> \o JPG
    /\ \A f \in fs[SessionFolder] : f.mtime <= 2

\* the order of the labeling modes under the grouping button
NextLabelingMode(m) ==
    IF m = "single" THEN "numbered-group"
    ELSE IF m = "numbered-group" THEN "text-group"
    ELSE "single"

\* C27: the grouping button cycles single -> numbered-group -> text-group
\* -> single, and a switch of the labeling mode changes neither sequence nor
\* subSequence
C27_ModeCycle ==
    [][/\ CycleLabelingMode => cam'.labelingMode = NextLabelingMode(cam.labelingMode)
       /\ cam'.labelingMode # cam.labelingMode
             => cam'.sequence = cam.sequence /\ cam'.subSequence = cam.subSequence]_vars

\* the button was pressed three times after a grouped capture: the mode is
\* single again and the counters are those the capture left
C27_Witness ==
    /\ cam.labelingMode = "single"
    /\ cam.usedLabels # {}
    /\ cam.subSequence = 2
    /\ cam.sequence = 2

-----------------------------------------------------------------------------
(* The index editor *)

\* the value of a field that holds a number
FieldValue(text) == DigitsToNat(text)

\* the fields of the index editor do not hold an index: the sequence field
\* is empty, not a number or below 1 (single and numbered-group), the label
\* is blank (text-group), or the sub-sequence field is filled in and below 1
InvalidIndexInput ==
    \/ /\ cam.labelingMode # "text-group"
       /\ \/ cam.editSequence = <<>>
          \/ ~IsNumeric(cam.editSequence)
          \/ FieldValue(cam.editSequence) < 1
    \/ /\ cam.labelingMode = "text-group"
       /\ \A i \in 1..Len(cam.editSequence) : cam.editSequence[i] = " "
    \/ /\ cam.labelingMode # "single"
       /\ cam.editSubSequence # <<>>
       /\ IsNumeric(cam.editSubSequence)
       /\ FieldValue(cam.editSubSequence) < 1

\* C28: submitting the index editor with such fields is rejected: sequence,
\* subSequence, textLabel and usedLabels keep their values, nothing is asked
\* of the file system and the editor stays open
C28_InvalidIndexRejected ==
    [][(HandleIndexSubmit /\ InvalidIndexInput)
          => /\ cam'.sequence = cam.sequence
             /\ cam'.subSequence = cam.subSequence
             /\ cam'.textLabel = cam.textLabel
             /\ cam'.usedLabels = cam.usedLabels
             /\ cam'.isEditingIndex
             /\ indexSave' = indexSave]_vars

\* a sub-sequence of 0 was submitted next to a valid sequence in
\* numbered-group mode and refused
C28_Witness ==
    /\ ghost.alert = [title |-> "Invalid Sub-Index"]
    /\ cam.isEditingIndex
    /\ cam.labelingMode = "numbered-group"
    /\ cam.editSequence = <<"1">>
    /\ cam.editSubSequence = <<"0">>
    /\ indexSave = null

-----------------------------------------------------------------------------
(* A rename that fails *)

\* C29: when the move of the active folder fails the rename is given up:
\* the current folder and the last-folder pointer keep their values, the
\* folder-change effects are not started, and the error alert is raised
C29_FailedRenameAborted ==
    [][(HandleRenameSave /\ disk' = disk)
          => /\ app' = app
             /\ storage' = storage
             /\ effects' = effects
             /\ fs' = fs
             /\ ghost'.alert = [title |-> "Error"]]_vars

\* the rename of the session folder was refused: the alert is up and the
\* session is still the current and the last folder
C29_Witness ==
    /\ ghost.alert = [title |-> "Error"]
    /\ cam.newFolderName = RenamedBase
    /\ app.currentFolder = SessionFolder
    /\ storage.lastFolder = Some(SessionFolder)
    /\ SessionFolder \in disk
    /\ RenamedFolder \notin disk

-----------------------------------------------------------------------------
(* The folder list *)

MediaExtensions == {JPG, JPEG, PNG, MP4, MOV}

\* the directory called name holds a file whose name ends, whatever the
\* case of its letters, in a media extension
HoldsMedia(name) ==
    \E c \in scan.contents[name], ext \in MediaExtensions :
       c.isFile /\ endsWith(toLowerCase(c.name), ext)

Subdirectories == {f \in scan.items : ~f.isFile}

\* the modification time of the listed folder called name
MtimeOf(name) == (CHOOSE f \in Subdirectories : f.name = name).mtime

Listed == scan.pc \in {"listed", "shown"}

\* the list holds each subdirectory of the base directory once and nothing
\* else, the most recently modified first
ListsSubdirectories ==
    /\ {scan.list[i].name : i \in 1..Len(scan.list)} = {f.name : f \in Subdirectories}
    /\ Len(scan.list) = Cardinality(Subdirectories)
    /\ \A i \in 1..Len(scan.list) : scan.list[i].path = pathIn(scan.list[i].name)
    /\ \A i, j \in 1..Len(scan.list) :
          i < j => MtimeOf(scan.list[i].name) >= MtimeOf(scan.list[j].name)

\* the selector shows the root entry, then the list
RootShownFirst ==
    scan.pc = "shown"
       => /\ scan.folders[1] = RootEntry
          /\ Len(scan.folders) = Len(scan.list) + 1
          /\ \A i \in 1..Len(scan.list) :
                scan.folders[i + 1] = [name |-> scan.list[i].name, path |-> scan.list[i].path]

-----------------------------------------------------------------------------
(* Videos *)

\* the name without the extension that formatFilename gives the index
StemOf(sequence, subSequence, textLabel) ==
    replace(formatFilename(sequence, subSequence, textLabel), JPG, <<>>)

\* name is the video file of the stem, possibly with a suffix that keeps
\* it apart from files already there
IsVideoOf(name, stem) ==
    /\ Len(name) > Len(stem)
    /\ SubSeq(name, 1, Len(stem)) = stem
    /\ endsWith(name, MP4)
    /\ LET rest == SubSeq(name, Len(stem) + 1, Len(name))
       IN  rest = MP4 \/ rest[1] = "_"

\* the video that has just been saved went, as one new file, into the folder
\* of the start of the recording under the index of that moment
SavedWhereStarted ==
    /\ \A f \in Folders \ {video.folder} : fs'[f] = fs[f]
    /\ fs[video.folder] \subseteq fs'[video.folder]
    /\ Cardinality(fs'[video.folder] \ fs[video.folder]) = 1
    /\ \A f \in fs'[video.folder] \ fs[video.folder] :
          IsVideoOf(f.name, StemOf(video.sequence, video.subSequence, video.textLabel))

\* the counter of the labeling mode of the start of the recording advanced
\* by one, the other one stayed
CounterOfStartAdvanced ==
    IF video.labelingMode = "single"
    THEN cam'.sequence = cam.sequence + 1 /\ cam'.subSequence = cam.subSequence
    ELSE cam'.subSequence = cam.subSequence + 1 /\ cam'.sequence = cam.sequence

\* C31: a video is saved into the folder and under the index that were
\* current when the recording started, whatever has changed since, and when
\* it is saved the counter of the labeling mode of the start of the
\* recording advances by exactly 1
C31_VideoKeepsStartIndex ==
    [][(VideoSaved /\ video.folder # BASE_DIR)
          => SavedWhereStarted /\ CounterOfStartAdvanced]_vars

-----------------------------------------------------------------------------
(* The sub-sequence of a parsed name *)

\* the part of a stem after its last '-'
TrailingToken(stem) == SubSeq(stem, lastIndexOf(stem, <<"-">>) + 1, Len(stem))

\* C32: the subSequence that parseFilename returns is either absent or the
\* natural number written by a purely numeric token after the last '-' of
\* the stem; a token that is not purely numeric never gives a subSequence
\* that is not a number
C32_SubSequenceIsNumber ==
    (codec.pc = "parsed" /\ "subSequence" \in DOMAIN codec.parsed)
       => LET stem == replace(replace(codec.filename, JPG, <<>>), MP4, <<>>)
          IN  /\ codec.parsed.subSequence \in Nat
              /\ IsNumeric(TrailingToken(stem))
              /\ codec.parsed.subSequence = DigitsToNat(TrailingToken(stem))

-----------------------------------------------------------------------------
(* Settings saved by the modal *)

\* the settings a store holds
Persisted(stored) == loadSettings(stored)

\* every persisted setting in fixed mode has its fixed value
FixedValuesPresent ==
    \A key \in ModeKeys :
       Persisted(storage)[key] = "fixed" => Persisted(storage)[FixedKeyOf(key)] # null

\* a mode button switched the setting to fixed: the modal holds the runtime
\* value as its fixed value
SwitchTakesRuntimeValue ==
    \A key \in ModeKeys :
       (/\ boot.modal # null /\ boot'.modal # null
        /\ boot.modal.settings # null /\ boot'.modal.settings # null
        /\ boot.modal.settings.value[key] # "fixed"
        /\ boot'.modal.settings.value[key] = "fixed")
          => boot'.modal.settings.value[FixedKeyOf(key)] = Some(currentValues(key))

\* the save wrote what the modal held, and a setting that became fixed by it
\* is stored with the runtime value
SaveStoresSwitch ==
    (HandleSettingsSave /\ boot.modal.settings # null)
       => /\ Persisted(storage') = boot.modal.settings.value
          /\ \A key \in ModeKeys :
                (Persisted(storage')[key] = "fixed" /\ Persisted(storage)[key] # "fixed")
                   => Persisted(storage')[FixedKeyOf(key)] = Some(currentValues(key))

-----------------------------------------------------------------------------
(* Labels of groups *)

\* the text label has just become another label, one that was already used
TakesUsedLabel ==
    /\ cam.labelingMode = "text-group"
    /\ cam'.textLabel # cam.textLabel
    /\ cam'.textLabel \in cam.usedLabels

\* C34 as stated: in text-group mode no operation, next-label prompt or
\* manual index edit, makes the text label a label that differs from the
\* current one and is already among the used labels
C34_NoSharedLabel == [][~TakesUsedLabel]_vars

\* C34, amended: the next-label prompt never does; only a manual index edit
\* that is committed can
C34_PromptNeverSharesLabel ==
    [][TakesUsedLabel => (indexSave # null /\ indexSave' = null /\ ~HandleLabelSave)]_vars

\* B was given to a group through the prompt, the index editor went back
\* to the used label A, and B, typed again in the prompt, was refused
C34_Witness ==
    /\ cam.labelingMode = "text-group"
    /\ cam.textLabel = <<"A">>
    /\ cam.usedLabels = {<<"A">>, <<"B">>}
    /\ cam.lastPhoto # null
    /\ cam.isEnteringLabel
    /\ cam.newFolderName = <<"B">>
    /\ ghost.alert = [title |-> "Duplicate Label"]


-----------------------------------------------------------------------------
(* The current folder on disk *)

\* Browsing: the application runs on a session folder beside another one;
\* the operator opens the gallery and its folder selector, deletes folders
\* there or in the main folder selector, selects folders, renames the current
\* folder and goes back
GalleryNext ==
    \/ FolderEffects
    \/ OpenGallery
    \/ GalleryOpenFolders
    \/ GalleryFoldersBack
    \/ CloseGallery
    \/ (Settled /\ HandleRenameSave)
    \/ OpenFolders
    \/ LoadFoldersDone
    \/ handleBack
    \/ \E folder \in {RootEntry} \cup listFolders(Folders) :
          \/ GallerySelect(folder)
          \/ HandlePress(folder)
          \/ HandleDelete(folder)

SpecGallery == SessionInit /\ [][GalleryNext]_vars

\* the capture screen is shown, the gallery is closed and nothing is in flight
CaptureScreenIdle ==
    /\ cameraShown
    /\ cam.gallery = null
    /\ selector = null
    /\ Settled

\* C35: whenever the capture screen is active with no operation in flight
\* (after startup, a folder selection, a rename, or deletions in the main
\* folder selector or in the gallery's folder selector) the directory of the
\* current folder exists on disk
C35_CurrentFolderExists == CaptureScreenIdle => app.currentFolder \in disk


-----------------------------------------------------------------------------
(* Captures that overlap *)

\* A session folder with an operator who presses the shutter or a volume key
\* at any pace, asks for retakes of the last photo and switches the labeling
\* mode; the steps of the captures in flight interleave, and the camera call
\* and moveFile may throw
OverlapNext ==
    \/ FolderEffects
    \/ TakePhotoPress
    \/ (Settled /\ LabelingSwitch)
    \/ (Settled /\ Retake)
    \/ \E t \in photos :
          \/ TakePhotoThrows(t)
          \/ SaveFileProbe(t)
          \/ SaveFileMove(t)

SpecOverlap == Init /\ [][OverlapNext]_vars

\* the step replaces a media file of a session folder: an entry of the name
\* that was there is there with another modification time
ReplacesFile ==
    \E f \in Folders : \E e \in fs[f] :
        /\ e.isFile
        /\ \E n \in fs'[f] : n.name = e.name /\ n.mtime # e.mtime

\* C36: two capture requests whose executions overlap never move their media
\* to the same destination path: every capture that is saved ends up as its
\* own file and none replaces the other
C36_NoCaptureReplaced == [][~ReplacesFile]_vars

\* the step ends the capture t with nothing saved: the camera call or
\* moveFile has thrown
Fails(t) == photos' = photos \ {t} /\ ghost'.saved = ghost.saved

\* the step takes the capture t from the photo taken to saveFile's moveFile
Probes(t) ==
    /\ ~Probed(t)
    /\ \E u \in photos' : Probed(u) /\ u.id = t.id /\ photos' = (photos \ {t}) \cup {u}

\* the media files of folder f
MediaFiles(dir) == {e \in dir : e.isFile}

\* the step leaves the indexes and the retake target as they are and adds
\* no file to the folder of t
LeavesSessionAsItIs(t) ==
    /\ cam'.sequence = cam.sequence
    /\ cam'.subSequence = cam.subSequence
    /\ cam'.textLabel = cam.textLabel
    /\ cam'.usedLabels = cam.usedLabels
    /\ cam'.retakeTarget = cam.retakeTarget
    /\ MediaFiles(fs'[t.folder]) \subseteq MediaFiles(fs[t.folder])

\* C37: if taking or saving a photo fails (the camera call or the file move
\* throws), sequence, subSequence, textLabel and the used-label set are
\* unchanged, a pending retake target stays set, and no file is added to the
\* session folder; this covers the steps of the capture before its move too
C37_FailedCaptureChangesNothing ==
    [][\A t \in photos :
          (Fails(t) \/ Probes(t)) => LeavesSessionAsItIs(t)]_vars

\* a retake has failed at its moveFile: the target is still pending, nothing
\* was saved, the folder holds what it held
C37_Witness ==
    /\ ghost.failed # null
    /\ Probed(ghost.failed)
    /\ ghost.failed.retakeTarget # null
    /\ cam.retakeTarget = ghost.failed.retakeTarget
    /\ photos = {}
    /\ ghost.saved = 0
    /\ MediaFiles(fs[SessionFolder]) = OnePhoto

-----------------------------------------------------------------------------
(* The last-folder pointer *)

\* The application is launched with the folder mode lastUsed (the default)
\* on a pointer that is missing or names a session folder; the operator
\* selects folders, deletes them, goes back and renames the current folder
\* at any pace, while the writes of the pointer complete one by one
PointerInit ==
    /\ CodecIdle
    /\ ScanIdle
    /\ \E last \in {null, Some(SessionFolder)} :
          storage = [EmptyStorage EXCEPT !.lastFolder = last]
    /\ boot = InitialBoot
    /\ disk = {BASE_DIR, SessionFolder, OtherFolder}
    /\ selector = null
    /\ app = [currentFolder |-> null, showFolderSelector |-> FALSE]
    /\ fs = [f \in Folders |-> IF f = SessionFolder THEN SomePhotos
                                ELSE IF f = OtherFolder THEN OnePhoto ELSE {}]
    /\ archive = [f \in Folders |-> {}]
    /\ clock = Cardinality(SomePhotos)
    /\ cam = InitialCam
    /\ effects = NoEffects
    /\ photos = {}
    /\ video = null
    /\ indexSave = null
    /\ ghost = InitialGhost

PointerNext ==
    \/ Setup
    \/ FolderEffects
    \/ RenameCurrentFolder
    \/ OpenFolders
    \/ LoadFoldersDone
    \/ BackToCamera
    \/ WriteFileDone
    \/ \E folder \in {RootEntry} \cup listFolders(Folders) :
          \/ SelectFolder(folder)
          \/ HandleDelete(folder)

SpecPointer == PointerInit /\ [][PointerNext]_vars

\* the step is the end of startup
StartupEnds == boot.isLoading /\ ~boot'.isLoading

\* the step changes the current folder after startup
FolderChanges == ~boot.isLoading /\ app'.currentFolder # app.currentFolder

\* the step calls saveLastFolder
PointerWriteIssued == Len(ghost'.writes) > Len(ghost.writes)

\* the step completes the last write of the pointer that was pending
PointerWritesComplete == ghost.writes # <<>> /\ ghost'.writes = <<>>

=============================================================================
